---- MODULE Spec2Model ----
(***************************************************************************)
(* Verification model of the LenRodAi chat assistant.                      *)
(*                                                                         *)
(* Parts of the repository are modelled separately, each with its own       *)
(* specification over the shared variable tuple:                           *)
(*   SpecMonitor   main_openai_smart.py: TokenMonitor and the HTTP and     *)
(*                 WebSocket chat handlers that consult it.                *)
(*   SpecChat      src/api/chat.py, src/api/websocket.py (message          *)
(*                 handlers), src/services, src/core/database.py.          *)
(*   SpecDb        src/core/database.py: DatabaseManager called directly.  *)
(*   SpecRegistry  src/api/websocket.py: ConnectionManager and the         *)
(*                 endpoint loops that drive it.                           *)
(*   SpecFast      main_fast.py: ConnectionManager and websocket_endpoint. *)
(*   SpecConfidence, SpecComplexity, SpecKeywords, SpecContext             *)
(*                 functions of src/services called on their own.          *)
(*   SpecUserContext                                                       *)
(*                 src/core/database.py: the user_context table.           *)
(*   SpecPrompt    src/services/ai_service.py: the prompt built from the   *)
(*                 stored conversation history.                            *)
(*   SpecRecovery  main_openai_smart.py: requests once the monitor has     *)
(*                 switched to fallback replies.                           *)
(*   SpecInflight  main_openai_smart.py: several request handlers          *)
(*                 suspended at their awaits on one event loop.            *)
(*   SpecHandle    src/api/chat.py, src/api/websocket.py: several chat     *)
(*                 handlers suspended at their awaits.                     *)
(*   SpecPersonal  the stored user context and the system prompt.          *)
(*   SpecSimilarity                                                        *)
(*                 calculate_similarity on the stored history.             *)
(*   SpecSaves     src/core/database.py: save_conversation alone.          *)
(*   SpecSocket    src/api/websocket.py: one /ws/chat connection, frame    *)
(*                 by frame.                                               *)
(*   SpecStartup   main.py: startup_event and the service instances the    *)
(*                 request handlers call.                                  *)
(***************************************************************************)
EXTENDS Integers, Sequences, FiniteSets, TLC

VARIABLES
    \* ---- main_openai_smart.py
    api_key,            \* openai.api_key, read from the environment at import
    token_monitor,      \* the process-wide TokenMonitor instance
    last_request,       \* observation of the most recent request: path, monitor
                        \* before it, backend calls made, backend outcome, reply
    handlers,           \* the send_message / websocket_endpoint coroutines
                        \* started so far, each at one of its await points
    \* ---- main.py, src/api/chat.py, src/api/websocket.py at import and startup
    services,           \* per module, its module-level ai_service and ml_service
    lifespan,           \* "imported", then "serving" once startup_event has
                        \* returned, or "failed" when it raised
    \* ---- src/core/database.py (sqlite tables) and the chat handlers
    conversations,      \* rows of table conversations, in rowid order
    sessions,           \* table sessions: id -> message_count
    now,                \* CURRENT_TIMESTAMP, in whole seconds
    uuids,              \* number of uuid4() identifiers handed out so far
    last_chat,          \* observation of the most recent chat/db operation
    save_calls,         \* arguments of the save_conversation calls made so far
    ml_service,         \* an MLService instance: its five model attributes
    user_context,       \* rows of table user_context, one per session_id
    context_updates,    \* per session, the arguments of its latest
                        \* update_user_context call
    \* ---- src/api/websocket.py ConnectionManager and endpoint loops
    active_connections, \* manager.active_connections (a Python list)
    connection_sessions,\* manager.connection_sessions (dict handle -> session)
    pc,                 \* per handle: where its endpoint coroutine stands
    peer,               \* per handle: whether the client side is still there
    route,              \* per handle: "chat" or "admin" endpoint
    bc_iter,            \* per handle: list-iterator index of its broadcast loop
    bc_snapshot,        \* per handle: members registered when its broadcast began
    bc_delivered,       \* per handle: handle -> number of payload deliveries
    pruned              \* handles the manager removed after a failed send
                        \* while their endpoint coroutine was still running

monitor_vars == <<api_key, token_monitor, last_request, handlers, services,
                  lifespan>>
chat_vars == <<conversations, sessions, now, uuids, last_chat, save_calls,
               ml_service, user_context, context_updates>>
registry_vars == <<active_connections, connection_sessions, pc, peer, route,
                   bc_iter, bc_snapshot, bc_delivered, pruned>>
vars == <<monitor_vars, chat_vars, registry_vars>>

None == "None"

\* ------------------------------------------------------------------ bounds
MaxUsage == 2
MaxRows == 2
MaxClock == 1
MaxUuids == 2
MaxHandles == 2
MaxRepeat == 16
MaxTf == 2

\* ===================================================================
\* main_openai_smart.py : TokenMonitor
\* ===================================================================

\* Values openai.api_key can hold after os.getenv("OPENAI_API_KEY").
ApiKeys == {None, "your_openai_api_key_here", "sk-live"}

\* Texts of exceptions the backend call can raise; str(error) of each.
ErrorTexts == {"Connection timed out",
               "You exceeded your current quota",
               "Rate limit reached for requests",
               "Incorrect API key provided",
               "API key quota exhausted"}

\* `marker in str(error).lower()` for the three markers record_error looks for.
Contains(text, marker) ==
    CASE marker = "quota"      -> text \in {"You exceeded your current quota",
                                            "API key quota exhausted"}
      [] marker = "rate limit" -> text \in {"Rate limit reached for requests"}
      [] marker = "api key"    -> text \in {"Incorrect API key provided",
                                            "API key quota exhausted"}
      [] OTHER                 -> FALSE

TokenMonitorInit ==
    [openai_available |-> TRUE,
     last_error       |-> None,
     token_status     |-> "unknown",
     usage_count      |-> 0,
     error_count      |-> 0]

\* TokenMonitor.check_openai_status: the monitor after the call and the value
\* returned.
check_openai_status(m, key) ==
    IF key = None \/ key = "your_openai_api_key_here"
    THEN [monitor |-> [m EXCEPT !.openai_available = FALSE,
                                !.token_status = "no_api_key"],
          ret |-> FALSE]
    ELSE IF m.error_count > 3
    THEN [monitor |-> [m EXCEPT !.openai_available = FALSE,
                                !.token_status = "quota_exceeded"],
          ret |-> FALSE]
    ELSE [monitor |-> m, ret |-> TRUE]

record_success_keeps_count(m) ==
    [m EXCEPT !.usage_count = @ + 1,
              !.token_status = "available",
              !.openai_available = TRUE]

\* TokenMonitor.record_success
record_success(m) ==
    [m EXCEPT !.usage_count = @ + 1,
              !.error_count = 0,
              !.token_status = "available",
              !.openai_available = TRUE]

record_error_soft_api_key(m, error) ==
    LET m1 == [m EXCEPT !.error_count = @ + 1, !.last_error = error]
    IN  IF Contains(error, "quota") \/ Contains(error, "rate limit")
        THEN [m1 EXCEPT !.token_status = "quota_exceeded",
                        !.openai_available = FALSE]
        ELSE IF Contains(error, "api key")
        THEN [m1 EXCEPT !.token_status = "invalid_api_key"]
        ELSE [m1 EXCEPT !.token_status = "error"]

\* TokenMonitor.record_error
record_error(m, error) ==
    LET m1 == [m EXCEPT !.error_count = @ + 1, !.last_error = error]
    IN  IF Contains(error, "quota") \/ Contains(error, "rate limit")
        THEN [m1 EXCEPT !.token_status = "quota_exceeded",
                        !.openai_available = FALSE]
        ELSE IF Contains(error, "api key")
        THEN [m1 EXCEPT !.token_status = "invalid_api_key",
                        !.openai_available = FALSE]
        ELSE [m1 EXCEPT !.token_status = "error"]

\* create_fallback_response: the fields of the returned dict that depend on
\* the arguments (confidence in tenths).
create_fallback_response(user_message, status, error_detail) ==
    [response     |-> CASE status = "quota_exceeded"  -> "TOKENS AGOTADOS"
                        [] status = "invalid_api_key" -> "API KEY INVALIDA"
                        [] status = "no_api_key"      -> "CONFIGURACION REQUERIDA"
                        [] OTHER                      -> "MODO DE RESPALDO",
     echo         |-> user_message,
     session_id   |-> "fallback-session",
     confidence   |-> 3,
     fallback     |-> TRUE,
     openai_status|-> status,
     error_detail |-> error_detail,
     model        |-> "fallback-simulator"]

\* The dict send_message returns after a successful backend call.
openai_reply(user_message) ==
    [response     |-> "openai",
     echo         |-> user_message,
     session_id   |-> "openai-session",
     confidence   |-> 9,
     fallback     |-> FALSE,
     openai_status|-> "openai_success",
     error_detail |-> None,
     model        |-> "gpt-3.5-turbo"]

\* What openai.ChatCompletion.create can do when it is called.
BackendOutcomes == {"success"} \cup ErrorTexts

SmartMessages == {"", "hola"}

chat_exchange_retrying(m, key, user_message, outcome) ==
    LET chk == check_openai_status(m, key)
    IN  IF ~chk.ret
        THEN [monitor |-> chk.monitor,
              backend_calls |-> 0,
              reply |-> create_fallback_response(user_message,
                            chk.monitor.token_status, None)]
        ELSE IF outcome = "success"
        THEN [monitor |-> record_success(chk.monitor),
              backend_calls |-> 1,
              reply |-> openai_reply(user_message)]
        ELSE LET m2 == record_error(record_error(chk.monitor, outcome), outcome)
             IN  [monitor |-> m2,
                  backend_calls |-> 2,
                  reply |-> create_fallback_response(user_message,
                                m2.token_status, outcome)]

\* The body of send_message after request.json(), shared with the "message"
\* branch of websocket_endpoint: check the monitor; when it says unavailable
\* answer with the fallback; otherwise call the backend once and record the
\* outcome. `outcome` is what the backend does if it is called.
chat_exchange(m, key, user_message, outcome) ==
    LET chk == check_openai_status(m, key)
    IN  IF ~chk.ret
        THEN [monitor |-> chk.monitor,
              backend_calls |-> 0,
              reply |-> create_fallback_response(user_message,
                            chk.monitor.token_status, None)]
        ELSE IF outcome = "success"
        THEN [monitor |-> record_success(chk.monitor),
              backend_calls |-> 1,
              reply |-> openai_reply(user_message)]
        ELSE LET m2 == record_error(chk.monitor, outcome)
             IN  [monitor |-> m2,
                  backend_calls |-> 1,
                  reply |-> create_fallback_response(user_message,
                                m2.token_status, outcome)]

NoReply == [response |-> None, echo |-> None, session_id |-> None,
            confidence |-> 0, fallback |-> FALSE, openai_status |-> None,
            error_detail |-> None, model |-> None]

NoRequest == [path |-> "none", before |-> TokenMonitorInit, backend_calls |-> 0,
              outcome |-> None, reply |-> NoReply]

\* self.tfidf_vectorizer: None, a TfidfVectorizer that has no vocabulary_
\* attribute yet, or a fitted one.
NoVectorizer == [state |-> "None", vocabulary_ |-> {}]
UnfittedVectorizer == [state |-> "unfitted", vocabulary_ |-> {}]
FittedVectorizer(vocabulary) == [state |-> "fitted", vocabulary_ |-> vocabulary]

\* MLService.__init__: no model is loaded until initialize() runs.
MLServiceInit ==
    [sentence_model |-> None, nlp |-> None, tfidf_vectorizer |-> NoVectorizer,
     intent_classifier |-> None, emotion_classifier |-> None]

\* AIService.__init__: no client until initialize() runs.
AIServiceInit == [client |-> None]

\* The modules that create service instances when they are imported:
\* main.py:57-58, src/api/chat.py:19-20, src/api/websocket.py:19-20.
ServiceModules == {"main", "chat", "websocket"}

ServicesInit ==
    [m \in ServiceModules |-> [ai_service |-> AIServiceInit,
                               ml_service |-> MLServiceInit]]

MonitorInit ==
    /\ api_key \in ApiKeys
    /\ token_monitor = TokenMonitorInit
    /\ last_request = NoRequest
    /\ handlers = <<>>
    /\ services = ServicesInit
    /\ lifespan = "imported"

\* POST /api/chat/send with a JSON object body.
send_message(user_message, outcome) ==
    LET r == chat_exchange(token_monitor, api_key, user_message, outcome)
    IN  /\ r.monitor.usage_count <= MaxUsage
        /\ token_monitor' = r.monitor
        /\ last_request' = [path |-> "http", before |-> token_monitor,
                            backend_calls |-> r.backend_calls,
                            outcome |-> IF r.backend_calls = 1 THEN outcome ELSE None,
                            reply |-> r.reply]
        /\ UNCHANGED <<api_key, services, lifespan, handlers, chat_vars, registry_vars>>

\* POST /api/chat/send whose body is not a JSON object: request.json() or
\* data.get raises, the outer handler answers with an error dict.
send_message_bad_body ==
    /\ last_request' = [path |-> "http-bad-body", before |-> token_monitor,
                        backend_calls |-> 0, outcome |-> None,
                        reply |-> [NoReply EXCEPT !.response = "error"]]
    /\ UNCHANGED <<api_key, services, lifespan, token_monitor, handlers, chat_vars, registry_vars>>

\* websocket_endpoint: one {"type": "message"} frame received and answered.
websocket_endpoint_message(user_message, session_id, outcome) ==
    LET r == chat_exchange(token_monitor, api_key, user_message, outcome)
    IN  /\ r.monitor.usage_count <= MaxUsage
        /\ token_monitor' = r.monitor
        /\ last_request' = [path |-> "ws", before |-> token_monitor,
                            backend_calls |-> r.backend_calls,
                            outcome |-> IF r.backend_calls = 1 THEN outcome ELSE None,
                            reply |-> [r.reply EXCEPT !.session_id = session_id]]
        /\ UNCHANGED <<api_key, services, lifespan, handlers, chat_vars, registry_vars>>

\* GET /health
health_check ==
    /\ token_monitor' = check_openai_status(token_monitor, api_key).monitor
    /\ last_request' = [NoRequest EXCEPT !.path = "health", !.before = token_monitor]
    /\ UNCHANGED <<api_key, services, lifespan, handlers, chat_vars, registry_vars>>

\* GET /api/token-status
get_token_status ==
    /\ token_monitor' = check_openai_status(token_monitor, api_key).monitor
    /\ last_request' = [NoRequest EXCEPT !.path = "token-status",
                                         !.before = token_monitor]
    /\ UNCHANGED <<api_key, services, lifespan, handlers, chat_vars, registry_vars>>

MonitorNext ==
    \/ \E msg \in SmartMessages, o \in BackendOutcomes : send_message(msg, o)
    \/ send_message_bad_body
    \/ \E msg \in SmartMessages, sid \in {"default", "s1"}, o \in BackendOutcomes :
          websocket_endpoint_message(msg, sid, o)
    \/ health_check
    \/ get_token_status

\* ===================================================================
\* initial values of the parts a specification does not drive
\* ===================================================================
NoChat == [op |-> "none"]

ChatIdle ==
    /\ conversations = <<>>
    /\ sessions = {}
    /\ now = 0
    /\ uuids = 0
    /\ last_chat = NoChat
    /\ save_calls = <<>>
    /\ ml_service = MLServiceInit
    /\ user_context = {}
    /\ context_updates = {}

RegistryIdle ==
    /\ active_connections = <<>>
    /\ connection_sessions = {}
    /\ pc = <<>>
    /\ peer = <<>>
    /\ route = <<>>
    /\ bc_iter = <<>>
    /\ bc_snapshot = <<>>
    /\ bc_delivered = <<>>
    /\ pruned = {}

MonitorIdle ==
    /\ api_key = "sk-live"
    /\ token_monitor = TokenMonitorInit
    /\ last_request = NoRequest
    /\ handlers = <<>>
    /\ services = ServicesInit
    /\ lifespan = "imported"

InitMonitor == MonitorInit /\ ChatIdle /\ RegistryIdle

SpecMonitor ==
    /\ InitMonitor
    /\ [][MonitorNext]_vars

\* ===================================================================
\* Properties of the TokenMonitor (SpecMonitor)
\* ===================================================================
ChatRequest == last_request.path \in {"http", "ws"}

Transient(e) ==
    /\ e \in ErrorTexts
    /\ ~Contains(e, "quota") /\ ~Contains(e, "rate limit") /\ ~Contains(e, "api key")

HardFailure(e) ==
    /\ e \in ErrorTexts
    /\ Contains(e, "quota") \/ Contains(e, "rate limit") \/ Contains(e, "api key")

\* C1: a chat request (HTTP or WebSocket) that starts with the monitor DEGRADED
\* (openai_available false) is answered by the fallback reply (confidence 0.3,
\* context.fallback true) and makes no backend call.
C1_DegradedSkipsBackend ==
    (ChatRequest /\ ~last_request.before.openai_available)
        => /\ last_request.backend_calls = 0
           /\ last_request.reply.fallback
           /\ last_request.reply.confidence = 3

\* C2: from AVAILABLE with error count 0, the third consecutive transient
\* failure puts the monitor in DEGRADED, so the next request skips the backend;
\* after the first and the second the monitor is still AVAILABLE.
C2_ThreeTransientFailuresDegrade ==
    (ChatRequest /\ Transient(last_request.outcome)
                 /\ last_request.before.openai_available)
        => /\ last_request.before.error_count = 2
                => /\ ~token_monitor.openai_available
                   /\ ~check_openai_status(token_monitor, api_key).ret
           /\ last_request.before.error_count < 2
                => /\ token_monitor.openai_available
                   /\ check_openai_status(token_monitor, api_key).ret

\* C3: one failure whose text carries a quota, rate-limit or api-key marker
\* leaves the monitor DEGRADED in the record_error step itself, whatever the
\* error count was before.
C3_HardFailureDegradesAtOnce ==
    (ChatRequest /\ HardFailure(last_request.outcome))
        => /\ ~token_monitor.openai_available
           /\ token_monitor.token_status =
                 (IF Contains(last_request.outcome, "quota")
                     \/ Contains(last_request.outcome, "rate limit")
                  THEN "quota_exceeded" ELSE "invalid_api_key")
           /\ token_monitor.error_count = last_request.before.error_count + 1

C3_Witness ==
    /\ ChatRequest
    /\ last_request.outcome = "Incorrect API key provided"
    /\ last_request.before.error_count = 0
    /\ last_request.before.openai_available
    /\ ~token_monitor.openai_available

\* C4: record_success leaves the monitor AVAILABLE (openai_available true,
\* token_status "available") with error count 0, from DEGRADED and from
\* AVAILABLE alike.
C4_SuccessRestoresAvailable ==
    (ChatRequest /\ last_request.outcome = "success")
        => /\ token_monitor.openai_available
           /\ token_monitor.token_status = "available"
           /\ token_monitor.error_count = 0
           /\ token_monitor.usage_count = last_request.before.usage_count + 1

C4_Witness ==
    /\ ChatRequest
    /\ last_request.outcome = "success"
    /\ ~last_request.before.openai_available
    /\ last_request.before.error_count > 0
    /\ token_monitor.openai_available
    /\ token_monitor.error_count = 0

\* ===================================================================
\* src/core/database.py : DatabaseManager over the sqlite tables
\* ===================================================================

\* Session identifiers. A client sends none, the empty string, an identifier of
\* its own, or one the server minted for it earlier.
NoSession == [kind |-> "none", n |-> 0]
EmptySession == [kind |-> "client", n |-> 0]
ClientSession == [kind |-> "client", n |-> 1]
uuid4(k) == [kind |-> "uuid", n |-> k]

\* Python truth value of a session_id (None and "" are false).
SessionTruthy(sid) == sid # NoSession /\ sid # EmptySession

\* Message texts: the character ch repeated n times.
Text(ch, k) == [ch |-> IF k = 0 THEN "" ELSE ch, n |-> k]

\* Python values passed as `context`: None, or a dict whose items are held in
\* body (empty for {}).
PyNone == [tag |-> "None", body |-> {}]
PyDict(items) == [tag |-> "dict", body |-> items]
\* A list is the set of its <<index, item>> pairs.
PyList(items) == [tag |-> "list", body |-> {<<i, items[i]>> : i \in 1..Len(items)}]
PyTruthy(v) == v.tag \in {"dict", "list"} /\ v.body # {}

\* Column values of conversations.context: NULL or the JSON text of a dict.
SqlNull == [tag |-> "NULL", body |-> {}]
json_dumps(v) == [tag |-> "json", kind |-> v.tag, body |-> v.body]
json_loads(t) == [tag |-> t.kind, body |-> t.body]

RowsOf(convs, sid) == {i \in 1..Len(convs) : convs[i].session_id = sid}

message_count(sess, sid) ==
    IF \E r \in sess : r.id = sid
    THEN (CHOOSE r \in sess : r.id = sid).message_count
    ELSE 0

save_conversation_count_restarts(db, session_id, user_message, ai_response, context, confidence, ts) ==
    [conversations |->
        Append(db.conversations,
               [id |-> Len(db.conversations) + 1,
                session_id |-> session_id,
                user_message |-> user_message,
                ai_response |-> ai_response,
                context |-> IF PyTruthy(context) THEN json_dumps(context)
                            ELSE SqlNull,
                confidence |-> confidence,
                timestamp |-> ts]),
     sessions |->
        {r \in db.sessions : r.id # session_id}
          \cup {[id |-> session_id, last_activity |-> ts, message_count |-> 1]}]

save_conversation_one_row_per_session(db, session_id, user_message, ai_response, context, confidence, ts) ==
    LET kept == SelectSeq(db.conversations, LAMBDA row : row.session_id # session_id)
    IN  [conversations |->
            Append(kept,
                   [id |-> Len(kept) + 1,
                    session_id |-> session_id,
                    user_message |-> user_message,
                    ai_response |-> ai_response,
                    context |-> IF PyTruthy(context) THEN json_dumps(context)
                                ELSE SqlNull,
                    confidence |-> confidence,
                    timestamp |-> ts]),
         sessions |->
            {r \in db.sessions : r.id # session_id}
              \cup {[id |-> session_id, last_activity |-> ts,
                     message_count |-> message_count(db.sessions, session_id) + 1]}]

\* DatabaseManager.save_conversation: one transaction that inserts the row and
\* upserts the session counter. db is [conversations, sessions]; ts is
\* CURRENT_TIMESTAMP.
save_conversation(db, session_id, user_message, ai_response, context, confidence, ts) ==
    [conversations |->
        Append(db.conversations,
               [id |-> Len(db.conversations) + 1,
                session_id |-> session_id,
                user_message |-> user_message,
                ai_response |-> ai_response,
                context |-> IF PyTruthy(context) THEN json_dumps(context)
                            ELSE SqlNull,
                confidence |-> confidence,
                timestamp |-> ts]),
     sessions |->
        {r \in db.sessions : r.id # session_id}
          \cup {[id |-> session_id, last_activity |-> ts,
                 message_count |-> message_count(db.sessions, session_id) + 1]}]

\* One dict of the list get_conversation_history returns.
history_entry(row) ==
    [user_message |-> row.user_message,
     ai_response  |-> row.ai_response,
     context      |-> IF row.context.tag = "json"
                      THEN json_loads(row.context) ELSE PyNone,
     confidence   |-> row.confidence,
     timestamp    |-> row.timestamp]

Min(a, b) == IF a < b THEN a ELSE b

\* The orders in which sqlite may return the session's rows for
\* ORDER BY timestamp DESC: any order with non-increasing timestamps (rows with
\* equal timestamps have no defined relative order).
timestamp_desc_orders(convs, sid) ==
    LET R == RowsOf(convs, sid)
        k == Cardinality(R)
    IN  {p \in [1..k -> R] :
            /\ \A i, j \in 1..k : i # j => p[i] # p[j]
            /\ \A i, j \in 1..k :
                  i < j => convs[p[i]].timestamp >= convs[p[j]].timestamp}

\* DatabaseManager.get_conversation_history: every list the query can return
\* (LIMIT ? with a negative limit means no limit in sqlite).
get_conversation_history(convs, sid, limit) ==
    {LET k == IF limit < 0 THEN Len(p) ELSE Min(limit, Len(p))
     IN  [i \in 1..k |-> history_entry(convs[p[i]])] :
        p \in timestamp_desc_orders(convs, sid)}

db_now == [conversations |-> conversations, sessions |-> sessions]

\* ===================================================================
\* src/services/ml_service.py, src/services/ai_service.py
\* ===================================================================

\* Texts for the analyzers that count words: a Text (a run of one character),
\* a bag of whitespace-separated one-letter words, [words |-> count of each
\* word of Words], or a bag of longer words, [terms |-> count of each word of
\* Terms]. The order of the words does not enter any count.
Words == {"a", "A", "a."}
IsRun(text) == "ch" \in DOMAIN text
IsTerms(text) == "terms" \in DOMAIN text
\* Words of two letters, in the order sorted() gives them.
TermList == <<"aa", "bb", "cc", "dd", "ee", "ff">>
Terms == {TermList[i] : i \in 1..Len(TermList)}
TermBags == [terms : {f \in [Terms -> 0..MaxTf] :
                        \A t \in Terms \ {"cc"} : f[t] <= 1}]
WordBags == [words : {f \in [Words -> 0..MaxRepeat] : f["A"] <= 1}]
lower_word(w) == IF w = "A" THEN "a" ELSE w
\* a word holding a run of the characters . ! ?
has_stop(w) == w = "a."

BagTotal(bag, S) ==
    LET RECURSIVE Sum(_)
        Sum(T) == IF T = {} THEN 0
                  ELSE LET w == CHOOSE x \in T : TRUE
                       IN  bag[w] + Sum(T \ {w})
    IN  Sum(S)

\* len(text.split()): a run of one non-space character is one word, a run of
\* spaces none.
word_count(text) ==
    IF IsRun(text) THEN (IF text.n = 0 \/ text.ch = " " THEN 0 ELSE 1)
    ELSE IF IsTerms(text) THEN BagTotal(text.terms, Terms)
    ELSE BagTotal(text.words, Words)
\* len(set(text.lower().split()))
unique_words(text) ==
    IF IsRun(text) THEN word_count(text)
    ELSE IF IsTerms(text) THEN Cardinality({t \in Terms : text.terms[t] > 0})
    ELSE Cardinality({lower_word(w) : w \in {x \in Words : text.words[x] > 0}})
\* len(re.split(r'[.!?]+', text)): one more than the number of runs of stops.
sentence_count(text) ==
    IF IsRun(text) \/ IsTerms(text) THEN 1
    ELSE 1 + BagTotal(text.words, {w \in Words : has_stop(w)})
Max(a, b) == IF a > b THEN a ELSE b

\* Floats of the analyzers are kept as exact fractions num/den, den > 0.
Frac(n, m) == [num |-> n, den |-> m]
FracLess(q, r) == q.num * r.den < r.num * q.den
FracAdd(q, r) == Frac(q.num * r.den + r.num * q.den, q.den * r.den)

get_complexity_level_inclusive(score) ==
    IF ~FracLess(Frac(3, 10), score) THEN "simple"
    ELSE IF ~FracLess(Frac(7, 10), score) THEN "medium" ELSE "complex"

\* MLService._get_complexity_level
get_complexity_level(score) ==
    IF FracLess(score, Frac(3, 10)) THEN "simple"
    ELSE IF FracLess(score, Frac(7, 10)) THEN "medium" ELSE "complex"

\* MLService.analyze_complexity
analyze_complexity(text) ==
    LET avg == Frac(word_count(text), Max(sentence_count(text), 1))
        rich == Frac(unique_words(text), Max(word_count(text), 1))
        sum == FracAdd(Frac(avg.num, avg.den * 20), Frac(rich.num * 2, rich.den))
        score == IF FracLess(Frac(1, 1), sum) THEN Frac(1, 1) ELSE sum
    IN  [word_count |-> word_count(text),
         sentence_count |-> sentence_count(text),
         avg_sentence_length |-> avg,
         vocabulary_richness |-> rich,
         complexity_score |-> score,
         level |-> get_complexity_level(score)]

\* MLService.detect_language of a Text whose only word is not in the Spanish
\* indicator list: the ratio is 0, the language english with confidence 1.0.
detect_language(text) ==
    [language |-> "english", confidence |-> 1000, spanish_ratio |-> 0]

\* MLService.initialize. The sentence model may fail to load (the attribute
\* stays as it was), spacy always ends with some pipeline, the vectorizer is
\* created unfitted, and each classifier is loaded only if its pickle is
\* there and loads.
initialize(ml, sentence_loads, intent_loads, emotion_loads) ==
    [sentence_model |-> IF sentence_loads THEN "SentenceTransformer"
                        ELSE ml.sentence_model,
     nlp |-> "spacy",
     tfidf_vectorizer |-> UnfittedVectorizer,
     intent_classifier |-> IF intent_loads THEN "classifier" ELSE None,
     emotion_classifier |-> IF emotion_loads THEN "classifier" ELSE None]

\* The sub-analyzers of analyze_context; a set of them names those whose
\* library call raises for the message at hand.
Analyzers == {"intent", "emotions", "keywords", "entities", "similarity",
              "complexity", "language"}

classify_intent_unguarded(ml, text, raises) ==
    IF ml.intent_classifier = None
    THEN [intent |-> "general", confidence |-> 500, error |-> FALSE]
    ELSE IF raises
    THEN [intent |-> "error", confidence |-> 0, error |-> TRUE]
    ELSE [intent |-> "question", confidence |-> 900, error |-> FALSE]

\* MLService.classify_intent; confidences in thousandths.
classify_intent(ml, text, raises) ==
    IF ml.intent_classifier = None
    THEN [intent |-> "general", confidence |-> 500, error |-> FALSE]
    ELSE IF raises
    THEN [intent |-> "general", confidence |-> 500, error |-> TRUE]
    ELSE [intent |-> "question", confidence |-> 900, error |-> FALSE]

\* MLService.analyze_emotions
analyze_emotions(ml, text, raises) ==
    IF ml.emotion_classifier = None
    THEN [emotions |-> <<"neutral">>, confidence |-> 500, error |-> FALSE]
    ELSE IF raises
    THEN [emotions |-> <<"neutral">>, confidence |-> 500, error |-> TRUE]
    ELSE [emotions |-> <<"joy">>, confidence |-> 900, error |-> FALSE]

\* The count of each term of Terms among the tokens the vectorizer takes
\* from a text; its token pattern drops one-letter words.
term_frequency(text) ==
    IF IsTerms(text) THEN text.terms ELSE [t \in Terms |-> 0]

\* get_feature_names_out() of a fitted vectorizer: its vocabulary, sorted.
feature_names(vocabulary) ==
    LET Keep(t) == t \in vocabulary IN SelectSeq(TermList, Keep)

\* np.argsort(scores): the indices by ascending score, equal scores in index
\* order.
RECURSIVE argsort_from(_, _)
argsort_from(scores, remaining) ==
    IF remaining = {} THEN <<>>
    ELSE LET m == CHOOSE i \in remaining :
                    \A j \in remaining :
                        \/ scores[i] < scores[j]
                        \/ scores[i] = scores[j] /\ i <= j
         IN  <<m>> \o argsort_from(scores, remaining \ {m})

argsort(scores) == argsort_from(scores, 1..Len(scores))

\* seq[-k:] and seq[::-1]
last_k(seq, k) == IF Len(seq) <= k THEN seq ELSE SubSeq(seq, Len(seq) - k + 1, Len(seq))
reversed(seq) == [i \in 1..Len(seq) |-> seq[Len(seq) + 1 - i]]

top_keywords_unfiltered(names, scores) ==
    LET top_indices == reversed(last_k(argsort(scores), 10))
        keywords == [i \in 1..Len(top_indices) |-> names[top_indices[i]]]
    IN  SubSeq(keywords, 1, Min(5, Len(keywords)))

\* The last four statements of extract_keywords: the ten best indices, best
\* first, those of positive score kept, the first five returned.
top_keywords(names, scores) ==
    LET top_indices == reversed(last_k(argsort(scores), 10))
        Positive(i) == scores[i] > 0
        kept == SelectSeq(top_indices, Positive)
        keywords == [i \in 1..Len(kept) |-> names[kept[i]]]
    IN  SubSeq(keywords, 1, Min(5, Len(keywords)))

\* MLService.extract_keywords: the instance after the call and the list
\* returned. An unfitted vectorizer is fitted on the text itself, which raises
\* when the text yields no term. A fit on one document gives every term idf
\* 1, so a term's weight is its count divided by the norm of the row; the
\* weights are kept as the counts.
extract_keywords(ml, text, raises) ==
    LET tf == term_frequency(text)
        v == ml.tfidf_vectorizer
        fits == v.state = "unfitted"
        vocabulary == IF fits THEN {t \in Terms : tf[t] > 0} ELSE v.vocabulary_
        names == feature_names(vocabulary)
        scores == [i \in 1..Len(names) |-> tf[names[i]]]
    IN  IF raises THEN [ml |-> ml, ret |-> <<>>]
        ELSE IF v = NoVectorizer THEN [ml |-> ml, ret |-> <<>>]
        ELSE IF fits /\ vocabulary = {} THEN [ml |-> ml, ret |-> <<>>]
        ELSE [ml |-> [ml EXCEPT !.tfidf_vectorizer = FittedVectorizer(vocabulary)],
              ret |-> top_keywords(names, scores)]

\* MLService.extract_entities
extract_entities(ml, text, raises) ==
    IF raises \/ ml.nlp = None THEN <<>>
    ELSE IF word_count(text) = 0 THEN <<>>
    ELSE <<[text |-> "ent", label |-> "MISC", confidence |-> 800]>>

\* conversation_history[-5:]
LastFive(h) == IF Len(h) <= 5 THEN h ELSE SubSeq(h, Len(h) - 4, Len(h))

\* cosine_similarity of the embeddings of two texts, in thousandths: taken as
\* 1.0 for equal texts and 0.5 otherwise.
cosine_similarity(a, b) == IF a = b THEN 1000 ELSE 500

\* MLService.calculate_similarity. History entries always carry a non-empty
\* user_message here.
calculate_similarity(ml, message, conversation_history, raises) ==
    IF conversation_history = <<>> \/ ml.sentence_model = None
    THEN [similarity |-> 0, most_similar |-> PyNone, error |-> FALSE]
    ELSE IF raises
    THEN [similarity |-> 0, most_similar |-> PyNone, error |-> TRUE]
    ELSE LET recent == LastFive(conversation_history)
             cosine(i) == cosine_similarity(message, recent[i].user_message)
             RECURSIVE Total(_)
             Total(i) == IF i = 0 THEN 0 ELSE cosine(i) + Total(i - 1)
             best == CHOOSE i \in 1..Len(recent) :
                        \A j \in 1..Len(recent) : cosine(i) >= cosine(j)
         IN  [similarity |-> Total(Len(recent)) \div Len(recent),
              most_similar |-> PyDict({[message |-> recent[best].user_message,
                                        similarity |-> cosine(best)]}),
              error |-> FALSE]

\* MLService.analyze_context: the instance after the call and the dict
\* returned. failing is the set of sub-analyzers whose try block raises.
analyze_context(ml, message, conversation_history, failing) ==
    LET kw == extract_keywords(ml, message, "keywords" \in failing)
    IN  [ml |-> kw.ml,
         ret |-> PyDict({
            [intent |-> classify_intent(ml, message, "intent" \in failing),
             emotions |-> analyze_emotions(ml, message, "emotions" \in failing),
             keywords |-> kw.ret,
             entities |-> extract_entities(ml, message, "entities" \in failing),
             similarity |-> calculate_similarity(ml, message, conversation_history,
                                                 "similarity" \in failing),
             complexity |-> IF "complexity" \in failing
                            THEN [complexity_score |-> Frac(1, 2),
                                  level |-> "medium", error |-> TRUE]
                            ELSE analyze_complexity(message),
             language |-> IF "language" \in failing
                          THEN [language |-> "unknown", confidence |-> 500,
                                error |-> TRUE]
                          ELSE detect_language(message)]})]

\* conversation_history[-10:]
LastTen(h) == IF Len(h) <= 10 THEN h ELSE SubSeq(h, Len(h) - 9, Len(h))

RECURSIVE history_messages(_)
history_messages(h) ==
    IF h = <<>> THEN <<>>
    ELSE <<[role |-> "user", content |-> Head(h).user_message],
           [role |-> "assistant", content |-> Head(h).ai_response]>>
         \o history_messages(Tail(h))

\* The keys of a context dict built by analyze_context (none for None or {}).
context_keys(context) ==
    IF PyTruthy(context) THEN DOMAIN (CHOOSE r \in context.body : TRUE) ELSE {}

\* AIService._build_system_prompt: the base prompt, and the two additions
\* made when context has a non-empty "topics" and a "personality" with a
\* "communication_style" (PyNone / None when the addition is not made).
build_system_prompt(context) ==
    LET item == CHOOSE r \in context.body : TRUE
        topics == IF "topics" \in context_keys(context) THEN item.topics ELSE PyNone
        personality == IF "personality" \in context_keys(context)
                       THEN item.personality ELSE PyNone
        styles == {q \in personality.body : q[1] = "communication_style"}
    IN  [base |-> "base_prompt",
         topics |-> IF PyTruthy(topics) THEN topics ELSE PyNone,
         communication_style |->
             IF PyTruthy(personality) /\ styles # {}
             THEN (CHOOSE q \in styles : TRUE)[2] ELSE None]

\* AIService.generate_response. client is None until initialize() has run;
\* outcome is what the backend does when called: [ok |-> TRUE, text, confidence]
\* or [ok |-> FALSE, text]. The result holds the returned dict and the
\* messages sent to the backend (none when no call is made).
generate_response(client, user_message, conversation_history, context, outcome) ==
    LET messages ==
            <<[role |-> "system", content |-> build_system_prompt(context)]>>
            \o history_messages(LastTen(conversation_history))
            \o <<[role |-> "user", content |-> user_message]>>
    IN  IF client = None
        THEN [reply |-> [message |-> "Lo siento: 'NoneType' object has no attribute 'chat'",
                         confidence |-> 0, model |-> "unknown", error |-> TRUE],
              sent |-> <<>>]
        ELSE IF outcome.ok
        THEN [reply |-> [message |-> outcome.text, confidence |-> outcome.confidence,
                         model |-> "gpt-3.5-turbo", error |-> FALSE],
              sent |-> messages]
        ELSE [reply |-> [message |-> "Lo siento: backend error",
                         confidence |-> 0, model |-> "unknown", error |-> TRUE],
              sent |-> messages]

\* ===================================================================
\* src/api/chat.py and src/api/websocket.py : the chat handlers
\* ===================================================================

\* ml_service of chat.py and of websocket.py: module-level instances on
\* which initialize() is never called.
ApiMlService == MLServiceInit

\* ai_service.client of the module-level AIService of chat.py and of
\* websocket.py: set to None by __init__, and initialize() is only ever called
\* on the separate instances main.py creates.
ApiAiClient == None

NoOutcome == [ok |-> FALSE, text |-> None]

chat_send_message_partial_write(db, ts, drawn, message, session_in, history, save_raises) ==
    LET minted == ~SessionTruthy(session_in)
        session_id == IF minted THEN uuid4(drawn + 1) ELSE session_in
        context == analyze_context(ApiMlService, message, history, {}).ret
        gen == generate_response(ApiAiClient, message, history, context, NoOutcome)
        saved == save_conversation(db, session_id, message, gen.reply.message,
                                   context, gen.reply.confidence, ts)
    IN  [db |-> IF save_raises THEN [db EXCEPT !.conversations = saved.conversations]
                ELSE saved,
         drawn |-> IF minted THEN drawn + 1 ELSE drawn,
         backend_calls |-> IF gen.sent = <<>> THEN 0 ELSE 1,
         reply |-> IF save_raises
                   THEN [type |-> "http_500", message |-> "Error procesando mensaje",
                         session_id |-> NoSession, confidence |-> 0,
                         context |-> PyNone]
                   ELSE [type |-> "response", message |-> gen.reply.message,
                         session_id |-> session_id,
                         confidence |-> gen.reply.confidence,
                         context |-> context]]

\* chat.send_message from the point the history has been fetched: what the
\* handler leaves in the database, how many uuids it drew, and its response.
\* save_raises is whether sqlite fails inside save_conversation.
chat_send_message(db, ts, drawn, message, session_in, history, save_raises) ==
    LET minted == ~SessionTruthy(session_in)
        session_id == IF minted THEN uuid4(drawn + 1) ELSE session_in
        context == analyze_context(ApiMlService, message, history, {}).ret
        gen == generate_response(ApiAiClient, message, history, context, NoOutcome)
    IN  [db |-> IF save_raises THEN db
                ELSE save_conversation(db, session_id, message, gen.reply.message,
                                       context, gen.reply.confidence, ts),
         drawn |-> IF minted THEN drawn + 1 ELSE drawn,
         backend_calls |-> IF gen.sent = <<>> THEN 0 ELSE 1,
         reply |-> IF save_raises
                   THEN [type |-> "http_500", message |-> "Error procesando mensaje",
                         session_id |-> NoSession, confidence |-> 0,
                         context |-> PyNone]
                   ELSE [type |-> "response", message |-> gen.reply.message,
                         session_id |-> session_id,
                         confidence |-> gen.reply.confidence,
                         context |-> context]]

\* The session_id process_websocket_message hands to its handlers:
\* message_data.get("session_id") or manager.connection_sessions.get(websocket)
websocket_session_id(message_sid, connection_sid) ==
    IF SessionTruthy(message_sid) THEN message_sid ELSE connection_sid

\* websocket.handle_chat_message from the point the history has been fetched
\* (the empty list when there is no session_id).
handle_chat_message(db, ts, drawn, user_message, session_id, history, save_raises) ==
    LET context == analyze_context(ApiMlService, user_message, history, {}).ret
        gen == generate_response(ApiAiClient, user_message, history, context, NoOutcome)
        saves == SessionTruthy(session_id)
    IN  [db |-> IF saves /\ ~save_raises
                THEN save_conversation(db, session_id, user_message,
                                       gen.reply.message, context,
                                       gen.reply.confidence, ts)
                ELSE db,
         drawn |-> drawn,
         backend_calls |-> IF gen.sent = <<>> THEN 0 ELSE 1,
         reply |-> IF saves /\ save_raises
                   THEN [type |-> "error", message |-> "Error procesando mensaje",
                         session_id |-> NoSession, confidence |-> 0,
                         context |-> PyNone]
                   ELSE [type |-> "response", message |-> gen.reply.message,
                         session_id |-> session_id,
                         confidence |-> gen.reply.confidence,
                         context |-> context]]

\* Message texts clients send: empty, one space, one letter, 2000 and 2001
\* letters.
ChatMessages == {Text("a", 0), Text(" ", 1), Text("a", 1),
                 Text("a", 2000), Text("a", 2001)}

\* Session identifiers a client can put in a request: none, "", its own, or
\* one a reply gave it.
KnownSessions == {NoSession, EmptySession, ClientSession}
                    \cup {uuid4(k) : k \in 1..uuids}

\* The log of save_conversation calls after a handler step that took the
\* table from convs to convs2 (at most one row longer), passing `context`.
logged_saves(log, convs, convs2, context) ==
    IF Len(convs2) = Len(convs) THEN log
    ELSE LET row == convs2[Len(convs2)]
         IN  Append(log, [session_id |-> row.session_id,
                          user_message |-> row.user_message,
                          ai_response |-> row.ai_response,
                          context |-> context,
                          confidence |-> row.confidence])

\* POST /api/chat/send
api_send_message(message, session_in, save_raises) ==
    LET sid == IF SessionTruthy(session_in) THEN session_in ELSE uuid4(uuids + 1)
    IN  /\ Len(conversations) < MaxRows
        /\ SessionTruthy(session_in) \/ uuids < MaxUuids
        /\ \E history \in get_conversation_history(conversations, sid, 10) :
             LET r == chat_send_message(db_now, now, uuids, message, session_in,
                                        history, save_raises)
             IN  /\ conversations' = r.db.conversations
                 /\ sessions' = r.db.sessions
                 /\ uuids' = r.drawn
                 /\ save_calls' = logged_saves(save_calls, conversations,
                                                r.db.conversations, r.reply.context)
                 /\ last_chat' = [op |-> "chat", path |-> "http",
                                  message |-> message, session_in |-> session_in,
                                  save_raises |-> save_raises, history |-> history,
                                  before |-> db_now, ts |-> now, drawn |-> uuids,
                                  backend_calls |-> r.backend_calls,
                                  reply |-> r.reply]
        /\ UNCHANGED <<now, monitor_vars, registry_vars, ml_service,
                   user_context, context_updates>>

\* /ws/chat: one {"type": "message"} frame through process_websocket_message
\* and handle_chat_message; connection_sid is what the registry holds for the
\* connection (NoSession when it connected without one).
websocket_chat_message(user_message, message_sid, connection_sid, save_raises) ==
    LET sid == websocket_session_id(message_sid, connection_sid)
    IN  /\ Len(conversations) < MaxRows
        /\ \E history \in (IF SessionTruthy(sid)
                           THEN get_conversation_history(conversations, sid, 10)
                           ELSE {<<>>}) :
             LET r == handle_chat_message(db_now, now, uuids, user_message, sid,
                                          history, save_raises)
             IN  /\ conversations' = r.db.conversations
                 /\ sessions' = r.db.sessions
                 /\ uuids' = r.drawn
                 /\ save_calls' = logged_saves(save_calls, conversations,
                                                r.db.conversations, r.reply.context)
                 /\ last_chat' = [op |-> "chat", path |-> "ws",
                                  message |-> user_message, session_in |-> sid,
                                  save_raises |-> save_raises, history |-> history,
                                  before |-> db_now, ts |-> now, drawn |-> uuids,
                                  backend_calls |-> r.backend_calls,
                                  reply |-> r.reply]
        /\ UNCHANGED <<now, monitor_vars, registry_vars, ml_service,
                   user_context, context_updates>>

\* One second passes on the database clock.
Tick ==
    /\ now < MaxClock
    /\ now' = now + 1
    /\ last_chat' = NoChat
    /\ UNCHANGED <<conversations, sessions, uuids, save_calls, monitor_vars,
                   registry_vars, ml_service,
                   user_context, context_updates>>

ChatNext ==
    \/ \E m \in ChatMessages, sid \in KnownSessions, f \in BOOLEAN :
          api_send_message(m, sid, f)
    \/ \E m \in ChatMessages, msid \in KnownSessions,
          csid \in {NoSession, ClientSession}, f \in BOOLEAN :
          websocket_chat_message(m, msid, csid, f)
    \/ Tick

InitChat == MonitorIdle /\ ChatIdle /\ RegistryIdle

SpecChat ==
    /\ InitChat
    /\ [][ChatNext]_vars

\* ===================================================================
\* Properties of the chat handlers (SpecChat)
\* ===================================================================
IsChat == last_chat.op = "chat"

\* C5: a message that is empty, whitespace-only or longer than 2000
\* characters is rejected with a validation error before any side effect: no
\* turn is stored and the backend is not called, on the HTTP and on the
\* WebSocket path.
InvalidMessage(m) == m.n = 0 \/ m.ch = " " \/ m.n > 2000

C5_InvalidMessageRejected ==
    (IsChat /\ InvalidMessage(last_chat.message))
        => /\ last_chat.reply.type \notin {"response"}
           /\ db_now = last_chat.before
           /\ last_chat.backend_calls = 0

\* C6: a chat request without session_id gets a freshly minted identifier,
\* distinct from every identifier in the store, which is returned and under
\* which the turn is stored; a later request carrying an identifier fetches a
\* history holding the turns stored under it.
StoredSessions(db) ==
    {db.conversations[i].session_id : i \in 1..Len(db.conversations)}
        \cup {r.id : r \in db.sessions}

C6_FreshSessionMinted ==
    (IsChat /\ ~last_chat.save_raises)
        => /\ ~SessionTruthy(last_chat.session_in)
                => /\ SessionTruthy(last_chat.reply.session_id)
                   /\ last_chat.reply.session_id \notin StoredSessions(last_chat.before)
                   /\ Len(conversations) = Len(last_chat.before.conversations) + 1
                   /\ conversations[Len(conversations)].session_id
                          = last_chat.reply.session_id
                   /\ conversations[Len(conversations)].user_message
                          = last_chat.message
           /\ SessionTruthy(last_chat.session_in)
                => \A i \in RowsOf(last_chat.before.conversations, last_chat.session_in) :
                      \E j \in 1..Len(last_chat.history) :
                          last_chat.history[j]
                              = history_entry(last_chat.before.conversations[i])

\* C7: the WebSocket path leaves the store as the HTTP path does from the same
\* store, message and session_id, and returns the same session_id.
C7_TransportsAgree ==
    (IsChat /\ last_chat.path = "ws")
        => LET h == chat_send_message(last_chat.before, last_chat.ts, last_chat.drawn,
                                      last_chat.message, last_chat.session_in,
                                      last_chat.history, last_chat.save_raises)
           IN  /\ db_now = h.db
               /\ last_chat.reply.session_id = h.reply.session_id

\* ===================================================================
\* DatabaseManager called directly (SpecDb)
\* ===================================================================
DbSessions == {ClientSession, uuid4(1)}
DbMessages == {Text("a", 1), Text("b", 1)}
DbContexts == {PyNone, PyDict({}), PyDict({[intent |-> "general"]})}
DbConfidences == {0, 8}

\* db_manager.save_conversation(session_id, user_message, ai_response,
\* context, confidence)
db_save_conversation(session_id, user_message, context, confidence) ==
    LET r == save_conversation(db_now, session_id, user_message, "respuesta",
                               context, confidence, now)
    IN  /\ Len(conversations) < MaxRows
        /\ conversations' = r.conversations
        /\ sessions' = r.sessions
        /\ save_calls' = Append(save_calls,
                                [session_id |-> session_id,
                                 user_message |-> user_message,
                                 ai_response |-> "respuesta",
                                 context |-> context,
                                 confidence |-> confidence])
        /\ last_chat' = [op |-> "save", session_id |-> session_id]
        /\ UNCHANGED <<now, uuids, monitor_vars, registry_vars, ml_service,
                   user_context, context_updates>>

\* db_manager.get_conversation_history(session_id, limit)
db_get_conversation_history(session_id, limit) ==
    /\ \E result \in get_conversation_history(conversations, session_id, limit) :
          last_chat' = [op |-> "history", session_id |-> session_id,
                        limit |-> limit, result |-> result]
    /\ UNCHANGED <<conversations, sessions, now, uuids, save_calls, monitor_vars,
                   registry_vars, ml_service,
                   user_context, context_updates>>

DbNext ==
    \/ \E sid \in DbSessions, m \in DbMessages, c \in DbContexts,
          conf \in DbConfidences : db_save_conversation(sid, m, c, conf)
    \/ \E sid \in DbSessions, limit \in 0..MaxRows :
          db_get_conversation_history(sid, limit)
    \/ Tick

InitDb == MonitorIdle /\ ChatIdle /\ RegistryIdle

SpecDb ==
    /\ InitDb
    /\ [][DbNext]_vars

\* The save_conversation calls made for a session, oldest first.
SavedFor(sid) ==
    LET ForSession(c) == c.session_id = sid
    IN  SelectSeq(save_calls, ForSession)

\* C8: get_conversation_history(session, N) after any save_conversation calls
\* returns min(N, saved) turns, the most recently saved first (also for turns
\* saved within one timestamp tick), each with the user_message, ai_response,
\* context and confidence that were saved (an empty context included).
C8_HistoryRoundTrip ==
    last_chat.op = "history"
        => LET saved == SavedFor(last_chat.session_id)
               k == Min(last_chat.limit, Len(saved))
               got == last_chat.result
           IN  /\ Len(got) = k
               /\ \A i \in 1..k :
                    LET c == saved[Len(saved) - i + 1]
                    IN  /\ got[i].user_message = c.user_message
                        /\ got[i].ai_response = c.ai_response
                        /\ got[i].context = c.context
                        /\ got[i].confidence = c.confidence

\* ===================================================================
\* src/api/websocket.py : ConnectionManager and the endpoint loops
\* ===================================================================
\* WebSocket objects, one per accepted connection.
Handles == 1..MaxHandles

Range(seq) == {seq[i] : i \in 1..Len(seq)}

\* list.remove(x): the list without its first x.
RECURSIVE list_remove(_, _)
list_remove(seq, x) ==
    IF seq = <<>> THEN <<>>
    ELSE IF Head(seq) = x THEN Tail(seq)
    ELSE <<Head(seq)>> \o list_remove(Tail(seq), x)

registry_now == [active_connections |-> active_connections,
                 connection_sessions |-> connection_sessions]

\* ConnectionManager.connect, after websocket.accept() has returned.
connect(reg, websocket, session_id) ==
    [active_connections |-> Append(reg.active_connections, websocket),
     connection_sessions |->
        IF SessionTruthy(session_id)
        THEN {e \in reg.connection_sessions : e[1] # websocket}
                \cup {<<websocket, session_id>>}
        ELSE reg.connection_sessions]

disconnect_list_only(reg, websocket) ==
    [active_connections |->
        IF websocket \in Range(reg.active_connections)
        THEN list_remove(reg.active_connections, websocket)
        ELSE reg.active_connections,
     connection_sessions |-> reg.connection_sessions]

disconnect_sessions_only(reg, websocket) ==
    [active_connections |-> reg.active_connections,
     connection_sessions |-> {e \in reg.connection_sessions : e[1] # websocket}]

\* ConnectionManager.disconnect
disconnect(reg, websocket) ==
    [active_connections |->
        IF websocket \in Range(reg.active_connections)
        THEN list_remove(reg.active_connections, websocket)
        ELSE reg.active_connections,
     connection_sessions |-> {e \in reg.connection_sessions : e[1] # websocket}]

RegistryInit ==
    /\ active_connections = <<>>
    /\ connection_sessions = {}
    /\ pc = [h \in Handles |-> "new"]
    /\ peer = [h \in Handles |-> "open"]
    /\ route = [h \in Handles |-> "chat"]
    /\ bc_iter = [h \in Handles |-> 0]
    /\ bc_snapshot = [h \in Handles |-> {}]
    /\ bc_delivered = [h \in Handles |-> [g \in Handles |-> 0]]
    /\ pruned = {}

\* The endpoint coroutine of h ends: its socket is closed and nothing of the
\* handle is referred to again.
EndpointEnds(h) ==
    /\ pc' = [pc EXCEPT ![h] = "closed"]
    /\ peer' = [peer EXCEPT ![h] = "gone"]
    /\ route' = [route EXCEPT ![h] = "chat"]
    /\ pruned' = pruned \ {h}

SetRegistry(reg) ==
    /\ active_connections' = reg.active_connections
    /\ connection_sessions' = reg.connection_sessions

\* websocket_chat / websocket_admin up to the first receive: manager.connect.
\* The admin endpoint connects without a session_id.
websocket_connect(h, endpoint, session_id) ==
    /\ pc[h] = "new"
    /\ \A g \in Handles : g < h => pc[g] # "new"
    /\ endpoint = "admin" => session_id = NoSession
    /\ SetRegistry(connect(registry_now, h, session_id))
    /\ pc' = [pc EXCEPT ![h] = "receive"]
    /\ route' = [route EXCEPT ![h] = endpoint]
    /\ UNCHANGED <<peer, bc_iter, bc_snapshot, bc_delivered, pruned,
                   monitor_vars, chat_vars>>

\* receive_text returns a frame that is processed into a response to send
\* (process_websocket_message, or an admin command other than broadcast).
websocket_receive(h) ==
    /\ pc[h] = "receive" /\ peer[h] = "open"
    /\ pc' = [pc EXCEPT ![h] = "send"]
    /\ UNCHANGED <<active_connections, connection_sessions, peer, route, bc_iter,
                   bc_snapshot, bc_delivered, pruned, monitor_vars, chat_vars>>

\* receive_text returns a frame json.loads rejects: the endpoint's
\* `except Exception` calls manager.disconnect and the coroutine ends.
websocket_receive_bad_json(h) ==
    /\ pc[h] = "receive" /\ peer[h] = "open"
    /\ SetRegistry(disconnect(registry_now, h))
    /\ EndpointEnds(h)
    /\ UNCHANGED <<bc_iter, bc_snapshot, bc_delivered, monitor_vars, chat_vars>>

\* receive_text raises WebSocketDisconnect: manager.disconnect, coroutine ends.
websocket_receive_disconnect(h) ==
    /\ pc[h] = "receive" /\ peer[h] = "gone"
    /\ SetRegistry(disconnect(registry_now, h))
    /\ EndpointEnds(h)
    /\ UNCHANGED <<bc_iter, bc_snapshot, bc_delivered, monitor_vars, chat_vars>>

\* manager.send_personal_message of the endpoint loop: on success the loop
\* goes back to receive_text; a failed send raises into `except Exception`,
\* which calls manager.disconnect and ends the coroutine.
websocket_send(h) ==
    /\ pc[h] = "send"
    /\ IF peer[h] = "open"
       THEN /\ pc' = [pc EXCEPT ![h] = "receive"]
            /\ UNCHANGED <<active_connections, connection_sessions, peer, route,
                           pruned>>
       ELSE /\ EndpointEnds(h)
            /\ SetRegistry(disconnect(registry_now, h))
    /\ UNCHANGED <<bc_iter, bc_snapshot, bc_delivered, monitor_vars, chat_vars>>

\* The admin endpoint receives {"command": "broadcast"}: handle_admin_command
\* enters manager.broadcast, whose for loop takes an iterator over
\* self.active_connections itself.
admin_broadcast_begin(a) ==
    /\ pc[a] = "receive" /\ peer[a] = "open" /\ route[a] = "admin"
    /\ pc' = [pc EXCEPT ![a] = "broadcast"]
    /\ bc_iter' = [bc_iter EXCEPT ![a] = 0]
    /\ bc_snapshot' = [bc_snapshot EXCEPT ![a] = Range(active_connections)]
    /\ bc_delivered' = [bc_delivered EXCEPT ![a] = [g \in Handles |-> 0]]
    /\ UNCHANGED <<active_connections, connection_sessions, peer, route, pruned,
                   monitor_vars, chat_vars>>

\* One pass of the for loop of ConnectionManager.broadcast: the list iterator
\* yields the element at its index and advances; send_text is awaited; on
\* failure the bare except calls self.disconnect(connection).
broadcast_step(a) ==
    /\ pc[a] = "broadcast"
    /\ bc_iter[a] < Len(active_connections)
    /\ LET connection == active_connections[bc_iter[a] + 1]
       IN  /\ bc_iter' = [bc_iter EXCEPT ![a] = @ + 1]
           /\ IF peer[connection] = "open"
              THEN /\ bc_delivered' =
                        [bc_delivered EXCEPT ![a][connection] = @ + 1]
                   /\ UNCHANGED <<active_connections, connection_sessions, pruned>>
              ELSE /\ SetRegistry(disconnect(registry_now, connection))
                   /\ pruned' = pruned \cup {connection}
                   /\ UNCHANGED bc_delivered
    /\ UNCHANGED <<pc, peer, route, bc_snapshot, monitor_vars, chat_vars>>

\* The list iterator is exhausted: broadcast returns and handle_admin_command
\* returns the broadcast_sent response for the endpoint loop to send.
broadcast_end(a) ==
    /\ pc[a] = "broadcast"
    /\ bc_iter[a] >= Len(active_connections)
    /\ pc' = [pc EXCEPT ![a] = "send"]
    /\ bc_iter' = [bc_iter EXCEPT ![a] = 0]
    /\ bc_snapshot' = [bc_snapshot EXCEPT ![a] = {}]
    /\ bc_delivered' = [bc_delivered EXCEPT ![a] = [g \in Handles |-> 0]]
    /\ UNCHANGED <<active_connections, connection_sessions, peer, route, pruned,
                   monitor_vars, chat_vars>>

\* The client side of a connection goes away.
client_close(h) ==
    /\ pc[h] \in {"receive", "send", "broadcast"} /\ peer[h] = "open"
    /\ peer' = [peer EXCEPT ![h] = "gone"]
    /\ UNCHANGED <<active_connections, connection_sessions, pc, route, bc_iter,
                   bc_snapshot, bc_delivered, pruned, monitor_vars, chat_vars>>

RegistryNext ==
    \/ \E h \in Handles, e \in {"chat", "admin"},
          sid \in {NoSession, ClientSession} : websocket_connect(h, e, sid)
    \/ \E h \in Handles : websocket_receive(h)
    \/ \E h \in Handles : websocket_receive_bad_json(h)
    \/ \E h \in Handles : websocket_receive_disconnect(h)
    \/ \E h \in Handles : websocket_send(h)
    \/ \E h \in Handles : admin_broadcast_begin(h)
    \/ \E h \in Handles : broadcast_step(h)
    \/ \E h \in Handles : broadcast_end(h)
    \/ \E h \in Handles : client_close(h)

InitRegistry == MonitorIdle /\ ChatIdle /\ RegistryInit

SpecRegistry ==
    /\ InitRegistry
    /\ [][RegistryNext]_vars

\* ===================================================================
\* Properties of the Session Registry (SpecRegistry)
\* ===================================================================

\* C9: when a broadcast completes, every connection that was registered when
\* it began and is still registered has received the payload exactly once (a
\* connection whose send failed having been removed), and no connection has
\* received it twice, wherever the failing connections stand in the list.
C9_BroadcastReachesAll ==
    [][\A a \in Handles :
          (pc[a] = "broadcast" /\ pc'[a] = "send")
              => /\ \A h \in bc_snapshot[a] \cap Range(active_connections) :
                        bc_delivered[a][h] = 1
                 /\ \A h \in Handles : bc_delivered[a][h] <= 1]_vars

\* C10: active_connections holds exactly the handles whose endpoint has
\* connected and on which manager.disconnect has not been called since (by the
\* endpoint's own exit or by a broadcast whose send to it failed), each once.
Connected == {h \in Handles : pc[h] \in {"receive", "send", "broadcast"}} \ pruned

C10_MembershipExact ==
    /\ Range(active_connections) = Connected
    /\ Len(active_connections) = Cardinality(Range(active_connections))

C10_Witness ==
    /\ pruned # {}
    /\ active_connections # <<>>
    /\ \E h \in pruned : pc[h] = "receive"


\* ===================================================================
\* main_fast.py : ConnectionManager and websocket_endpoint
\* ===================================================================

\* ConnectionManager.connect, after websocket.accept() has returned.
fast_connect(connections, websocket) == Append(connections, websocket)

\* ConnectionManager.disconnect
fast_disconnect(connections, websocket) ==
    IF websocket \in Range(connections)
    THEN list_remove(connections, websocket)
    ELSE connections

\* The frame types websocket_endpoint answers, and where its loop stands
\* while the answer is being sent.
FastTypes == {"message", "ping", "typing"}

fast_send_site(type) ==
    CASE type = "message" -> "send_response"
      [] type = "ping"    -> "send_pong"
      [] type = "typing"  -> "send_typing"

FastSendSites == {fast_send_site(t) : t \in FastTypes}

\* websocket_endpoint up to the first receive_text.
fast_websocket_connect(h) ==
    /\ pc[h] = "new"
    /\ active_connections' = fast_connect(active_connections, h)
    /\ pc' = [pc EXCEPT ![h] = "receive"]
    /\ UNCHANGED <<connection_sessions, peer, route, bc_iter, bc_snapshot,
                   bc_delivered, pruned, monitor_vars, chat_vars>>

\* receive_text returns a frame of one of the three answered types; the
\* answer is built and the loop reaches its send_personal_message call.
fast_receive(h, type) ==
    /\ pc[h] = "receive" /\ peer[h] = "open"
    /\ pc' = [pc EXCEPT ![h] = fast_send_site(type)]
    /\ UNCHANGED <<active_connections, connection_sessions, peer, route, bc_iter,
                   bc_snapshot, bc_delivered, pruned, monitor_vars, chat_vars>>

\* receive_text raises (the client has gone) or json.loads rejects the frame:
\* one of the except clauses calls manager.disconnect and the coroutine ends.
fast_receive_raises(h) ==
    /\ pc[h] = "receive"
    /\ active_connections' = fast_disconnect(active_connections, h)
    /\ pc' = [pc EXCEPT ![h] = "closed"]
    /\ peer' = [peer EXCEPT ![h] = "gone"]
    /\ UNCHANGED <<connection_sessions, route, bc_iter, bc_snapshot,
                   bc_delivered, pruned, monitor_vars, chat_vars>>

\* ConnectionManager.send_personal_message as called by the loop: a failed
\* send_text is caught inside the manager, which calls self.disconnect and
\* returns normally, so the loop goes back to receive_text either way.
fast_send_personal_message(h) ==
    /\ pc[h] \in FastSendSites
    /\ pc' = [pc EXCEPT ![h] = "receive"]
    /\ IF peer[h] = "open"
       THEN UNCHANGED <<active_connections, pruned>>
       ELSE /\ active_connections' = fast_disconnect(active_connections, h)
            /\ pruned' = pruned \cup {h}
    /\ UNCHANGED <<connection_sessions, peer, route, bc_iter, bc_snapshot,
                   bc_delivered, monitor_vars, chat_vars>>

\* The client side of a connection goes away.
fast_client_close(h) ==
    /\ pc[h] \in {"receive"} \cup FastSendSites /\ peer[h] = "open"
    /\ peer' = [peer EXCEPT ![h] = "gone"]
    /\ UNCHANGED <<active_connections, connection_sessions, pc, route, bc_iter,
                   bc_snapshot, bc_delivered, pruned, monitor_vars, chat_vars>>

FastNext ==
    \/ \E h \in Handles : fast_websocket_connect(h)
    \/ \E h \in Handles, t \in FastTypes : fast_receive(h, t)
    \/ \E h \in Handles : fast_receive_raises(h)
    \/ \E h \in Handles : fast_send_personal_message(h)
    \/ \E h \in Handles : fast_client_close(h)

InitFast == MonitorIdle /\ ChatIdle /\ RegistryInit

SpecFast ==
    /\ InitFast
    /\ [][FastNext]_vars

\* C11: once a failed send of a reply to a connection has been handled, the
\* connection is not a member of the registry and its endpoint handler is not
\* at a receive or a send on it again.
C11_FailedSendEndsConnection ==
    \A h \in pruned :
        /\ h \notin Range(active_connections)
        /\ pc[h] \notin {"receive"} \cup FastSendSites

\* ===================================================================
\* src/services/ai_service.py, src/services/ml_service.py called directly
\* ===================================================================

\* uncertainty_words of AIService._calculate_confidence
uncertainty_words ==
    {"no estoy seguro", "no sé", "tal vez", "posiblemente", "quizás"}

\* Pieces a response text is made of; a text is the set of pieces it contains.
Fragments == uncertainty_words \cup {"TAL VEZ", "claro"}

\* str.lower() of a piece
lower(fragment) == IF fragment = "TAL VEZ" THEN "tal vez" ELSE fragment

\* `word in response_text` where response_text is content.lower()
in_lower_text(word, content) == word \in {lower(f) : f \in content}

\* response.usage.total_tokens values on both sides of the two thresholds
TokenCounts == {0, 49, 50, 51, 500, 501, 4096}

\* A chat completion as far as _calculate_confidence reads it.
Responses == [total_tokens : TokenCounts, content : SUBSET Fragments]

calculate_confidence_first_word_only(response) ==
    LET base == 8
        by_tokens == IF response.total_tokens < 50 THEN base - 1
                     ELSE IF response.total_tokens > 500 THEN base + 1
                     ELSE base
        hedged == IF \E w \in uncertainty_words :
                        in_lower_text(w, response.content)
                  THEN 1 ELSE 0
    IN  Max(0, Min(10, by_tokens - hedged))

\* AIService._calculate_confidence, in tenths.
calculate_confidence(response) ==
    LET base == 8
        by_tokens == IF response.total_tokens < 50 THEN base - 1
                     ELSE IF response.total_tokens > 500 THEN base + 1
                     ELSE base
        hedged == Cardinality({w \in uncertainty_words :
                                  in_lower_text(w, response.content)})
    IN  Max(0, Min(10, by_tokens - hedged))

\* _calculate_confidence is applied to a completion.
calculate_confidence_call(response) ==
    /\ last_chat' = [op |-> "_calculate_confidence", response |-> response,
                     result |-> calculate_confidence(response)]
    /\ UNCHANGED <<conversations, sessions, now, uuids, save_calls,
                   monitor_vars, registry_vars, ml_service,
                   user_context, context_updates>>

ConfidenceNext == \E r \in Responses : calculate_confidence_call(r)

InitConfidence == MonitorIdle /\ ChatIdle /\ RegistryIdle

SpecConfidence ==
    /\ InitConfidence
    /\ [][ConfidenceNext]_vars

\* analyze_complexity is applied to a message.
analyze_complexity_call(text) ==
    /\ last_chat' = [op |-> "analyze_complexity", text |-> text,
                     result |-> analyze_complexity(text)]
    /\ UNCHANGED <<conversations, sessions, now, uuids, save_calls,
                   monitor_vars, registry_vars, ml_service,
                   user_context, context_updates>>

ComplexityNext == \E t \in WordBags : analyze_complexity_call(t)

InitComplexity == MonitorIdle /\ ChatIdle /\ RegistryIdle

SpecComplexity ==
    /\ InitComplexity
    /\ [][ComplexityNext]_vars

\* The hedging phrases a response text contains, and its token-usage bucket.
Hedges(response) ==
    {w \in uncertainty_words : in_lower_text(w, response.content)}

Bucket(response) ==
    IF response.total_tokens < 50 THEN "low"
    ELSE IF response.total_tokens > 500 THEN "high" ELSE "mid"

\* C12: the confidence _calculate_confidence returns lies in [0,1] (0..10
\* tenths), and every response of the same token-usage bucket that contains
\* one hedging phrase more gets a strictly lower confidence.
C12_ConfidenceBoundedAndDecreasing ==
    last_chat.op = "_calculate_confidence"
        => /\ last_chat.result \in 0..10
           /\ \A r \in Responses :
                (/\ Bucket(r) = Bucket(last_chat.response)
                 /\ Cardinality(Hedges(r)) =
                        Cardinality(Hedges(last_chat.response)) + 1)
                    => calculate_confidence(r) < last_chat.result

C12_Witness ==
    /\ last_chat.op = "_calculate_confidence"
    /\ Bucket(last_chat.response) = "low"
    /\ Cardinality(Hedges(last_chat.response)) = 4
    /\ "TAL VEZ" \in last_chat.response.content
    /\ last_chat.result = 3

\* C13: analyze_complexity returns a score in [0,1], also for the empty
\* message, and the level is simple below 0.3, medium from 0.3 up to but not
\* including 0.7, and complex from 0.7 on (0.3 is medium, 0.7 is complex).
C13_ComplexityScoreAndLevel ==
    last_chat.op = "analyze_complexity"
        => LET n == last_chat.result.complexity_score.num
               m == last_chat.result.complexity_score.den
               level == last_chat.result.level
           IN  /\ m > 0 /\ 0 <= n /\ n <= m
               /\ 10 * n < 3 * m => level = "simple"
               /\ (3 * m <= 10 * n /\ 10 * n < 7 * m) => level = "medium"
               /\ 7 * m <= 10 * n => level = "complex"

C13_Witness ==
    /\ last_chat.op = "analyze_complexity"
    /\ 10 * last_chat.result.complexity_score.num
          = 3 * last_chat.result.complexity_score.den
    /\ last_chat.result.level = "medium"

\* ===================================================================
\* src/services/ml_service.py : extract_keywords called directly
\* ===================================================================

\* startup_event: ml_service.initialize() runs once on the fresh instance.
ml_initialize(sentence_loads, intent_loads, emotion_loads) ==
    /\ ml_service = MLServiceInit
    /\ ml_service' = initialize(ml_service, sentence_loads, intent_loads,
                                emotion_loads)
    /\ last_chat' = NoChat
    /\ UNCHANGED <<conversations, sessions, now, uuids, save_calls,
                   monitor_vars, registry_vars,
                   user_context, context_updates>>

\* extract_keywords is applied to a text.
extract_keywords_call(text, raises) ==
    LET r == extract_keywords(ml_service, text, raises)
    IN  /\ ml_service' = r.ml
        /\ last_chat' = [op |-> "extract_keywords", text |-> text,
                         raises |-> raises, before |-> ml_service,
                         result |-> r.ret]
        /\ UNCHANGED <<conversations, sessions, now, uuids, save_calls,
                       monitor_vars, registry_vars,
                   user_context, context_updates>>

\* None of the classifiers or of the sentence model enters extract_keywords:
\* initialize is taken with all three absent.
KeywordsNext ==
    \/ ml_initialize(FALSE, FALSE, FALSE)
    \/ \E t \in TermBags, f \in BOOLEAN : extract_keywords_call(t, f)

InitKeywords == MonitorIdle /\ ChatIdle /\ RegistryIdle

SpecKeywords ==
    /\ InitKeywords
    /\ [][KeywordsNext]_vars

\* The TF-IDF weight (up to the row's norm) of a term in the text of the last
\* extract_keywords call: its count if the vectorizer knows the term, else 0.
KeywordWeight(t) ==
    IF t \in ml_service.tfidf_vectorizer.vocabulary_
    THEN term_frequency(last_chat.text)[t] ELSE 0

\* C14: whatever the vectorizer's state before the call, extract_keywords
\* returns at most 5 terms, none twice, in order of non-increasing weight,
\* each of weight greater than 0.
C14_KeywordsTopFive ==
    last_chat.op = "extract_keywords"
        => LET kw == last_chat.result
           IN  /\ Len(kw) <= 5
               /\ \A i, j \in 1..Len(kw) : i # j => kw[i] # kw[j]
               /\ \A i, j \in 1..Len(kw) :
                     i < j => KeywordWeight(kw[i]) >= KeywordWeight(kw[j])
               /\ \A i \in 1..Len(kw) : KeywordWeight(kw[i]) > 0

C14_Witness ==
    /\ last_chat.op = "extract_keywords"
    /\ last_chat.before.tfidf_vectorizer.state = "fitted"
    /\ Cardinality(last_chat.before.tfidf_vectorizer.vocabulary_) = 6
    /\ Cardinality({t \in Terms : term_frequency(last_chat.text)[t] > 0}) = 6
    /\ Len(last_chat.result) = 5
    /\ KeywordWeight(last_chat.result[1]) > KeywordWeight(last_chat.result[5])

\* ===================================================================
\* src/services/ml_service.py : analyze_context called directly
\* ===================================================================

\* Messages and histories analyze_context is given: the empty message with
\* no history, and a message of two terms with one earlier turn.
ContextMessage == [terms |-> [t \in Terms |-> IF t \in {"aa", "bb"} THEN 1 ELSE 0]]
ContextTurn == [user_message |-> ContextMessage, ai_response |-> "respuesta",
                context |-> PyNone, confidence |-> 0]
ContextInputs == {<<Text("a", 0), <<>>>>, <<ContextMessage, <<ContextTurn>>>>}

\* analyze_context is applied to a message and a history.
analyze_context_call(message, conversation_history, failing) ==
    LET r == analyze_context(ml_service, message, conversation_history, failing)
    IN  /\ ml_service' = r.ml
        /\ last_chat' = [op |-> "analyze_context", message |-> message,
                         failing |-> failing, before |-> ml_service,
                         result |-> r.ret]
        /\ UNCHANGED <<conversations, sessions, now, uuids, save_calls,
                       monitor_vars, registry_vars,
                   user_context, context_updates>>

ContextNext ==
    \/ \E s, i, e \in BOOLEAN : ml_initialize(s, i, e)
    \/ \E in \in ContextInputs, failing \in SUBSET Analyzers :
          analyze_context_call(in[1], in[2], failing)

InitContext == MonitorIdle /\ ChatIdle /\ RegistryIdle

SpecContext ==
    /\ InitContext
    /\ [][ContextNext]_vars

\* C15: analyze_context returns a dict with all seven fields whichever
\* sub-analyzers raise or have no model, and each such sub-analyzer yields its
\* default: intent general/0.5, emotions [neutral]/0.5, keywords [],
\* entities [], similarity 0.0/None, complexity 0.5/medium.
C15_ContextAlwaysComplete ==
    last_chat.op = "analyze_context"
        => /\ last_chat.result.tag = "dict"
           /\ \A c \in last_chat.result.body :
                LET ml == last_chat.before
                    Off(name) == name \in last_chat.failing
                IN  /\ DOMAIN c = Analyzers
                    /\ (ml.intent_classifier = None \/ Off("intent"))
                          => c.intent.intent = "general" /\ c.intent.confidence = 500
                    /\ (ml.emotion_classifier = None \/ Off("emotions"))
                          => /\ c.emotions.emotions = <<"neutral">>
                             /\ c.emotions.confidence = 500
                    /\ (ml.tfidf_vectorizer = NoVectorizer \/ Off("keywords"))
                          => c.keywords = <<>>
                    /\ (ml.nlp = None \/ Off("entities")) => c.entities = <<>>
                    /\ (ml.sentence_model = None \/ Off("similarity"))
                          => /\ c.similarity.similarity = 0
                             /\ c.similarity.most_similar = PyNone
                    /\ Off("complexity")
                          => /\ c.complexity.complexity_score = Frac(1, 2)
                             /\ c.complexity.level = "medium"

C15_Witness ==
    /\ last_chat.op = "analyze_context"
    /\ last_chat.failing = {"intent", "similarity", "complexity"}
    /\ last_chat.before.intent_classifier # None
    /\ last_chat.before.emotion_classifier # None
    /\ last_chat.before.sentence_model # None
    /\ last_chat.message = ContextMessage
    /\ \E c \in last_chat.result.body :
          /\ c.intent.error /\ c.similarity.error
          /\ c.emotions.emotions = <<"joy">>
          /\ c.keywords # <<>>

\* ===================================================================
\* src/core/database.py : the user_context table
\* ===================================================================

update_user_context_merging(table, session_id, preferences, topics, personality) ==
    LET Column(v, old) == IF PyTruthy(v) THEN json_dumps(v) ELSE old
        prior == IF \E r \in table : r.session_id = session_id
                 THEN CHOOSE r \in table : r.session_id = session_id
                 ELSE [session_id |-> session_id, preferences |-> SqlNull,
                       topics |-> SqlNull, personality_profile |-> SqlNull]
    IN  {r \in table : r.session_id # session_id}
          \cup {[session_id |-> session_id,
                 preferences |-> Column(preferences, prior.preferences),
                 topics |-> Column(topics, prior.topics),
                 personality_profile |->
                     Column(personality, prior.personality_profile)]}

\* DatabaseManager.update_user_context: INSERT OR REPLACE of the session's row.
update_user_context(table, session_id, preferences, topics, personality) ==
    LET Column(v) == IF PyTruthy(v) THEN json_dumps(v) ELSE SqlNull
    IN  {r \in table : r.session_id # session_id}
          \cup {[session_id |-> session_id,
                 preferences |-> Column(preferences),
                 topics |-> Column(topics),
                 personality_profile |-> Column(personality)]}

\* DatabaseManager.get_user_context
get_user_context(table, session_id) ==
    LET Value(column, default) ==
            IF column.tag = "json" THEN json_loads(column) ELSE default
    IN  IF \E r \in table : r.session_id = session_id
        THEN LET row == CHOOSE r \in table : r.session_id = session_id
             IN  [preferences |-> Value(row.preferences, PyDict({})),
                  topics |-> Value(row.topics, PyList(<<>>)),
                  personality |-> Value(row.personality_profile, PyDict({}))]
        ELSE [preferences |-> PyDict({}), topics |-> PyList(<<>>),
              personality |-> PyDict({})]

\* Arguments callers pass: each absent (None), empty, or holding an entry.
PreferenceValues == {PyNone, PyDict({}), PyDict({<<"language", "es">>})}
TopicValues == {PyNone, PyList(<<>>), PyList(<<"ia", "cine">>)}
PersonalityValues == {PyNone, PyDict({<<"communication_style", "formal">>})}

\* db_manager.update_user_context(session_id, preferences, topics, personality)
db_update_user_context(session_id, preferences, topics, personality) ==
    /\ user_context' = update_user_context(user_context, session_id, preferences,
                                           topics, personality)
    /\ context_updates' =
          {u \in context_updates : u.session_id # session_id}
            \cup {[session_id |-> session_id, preferences |-> preferences,
                   topics |-> topics, personality |-> personality]}
    /\ last_chat' = [op |-> "update_user_context", session_id |-> session_id,
                     replaced |-> {r \in user_context : r.session_id = session_id}]
    /\ UNCHANGED <<conversations, sessions, now, uuids, save_calls, ml_service,
                   monitor_vars, registry_vars>>

\* db_manager.get_user_context(session_id)
db_get_user_context(session_id) ==
    /\ last_chat' = [op |-> "get_user_context", session_id |-> session_id,
                     result |-> get_user_context(user_context, session_id)]
    /\ UNCHANGED <<conversations, sessions, now, uuids, save_calls, ml_service,
                   user_context, context_updates, monitor_vars, registry_vars>>

UserContextNext ==
    \/ \E sid \in DbSessions, p \in PreferenceValues, t \in TopicValues,
          q \in PersonalityValues : db_update_user_context(sid, p, t, q)
    \/ \E sid \in DbSessions : db_get_user_context(sid)

InitUserContext == MonitorIdle /\ ChatIdle /\ RegistryIdle

SpecUserContext ==
    /\ InitUserContext
    /\ [][UserContextNext]_vars

\* What a reader should see for an argument of the latest update.
OrEmpty(v, empty) == IF v = PyNone THEN empty ELSE v

\* C16: get_user_context returns exactly the preferences, topics and
\* personality of the session's latest update, an argument omitted in that
\* update reading as its empty default whatever earlier updates held; a
\* session never updated reads as empty maps and an empty list.
C16_UserContextLastWriteWins ==
    last_chat.op = "get_user_context"
        => LET mine == {u \in context_updates :
                            u.session_id = last_chat.session_id}
               got == last_chat.result
           IN  /\ mine = {} => got = [preferences |-> PyDict({}),
                                      topics |-> PyList(<<>>),
                                      personality |-> PyDict({})]
               /\ \A u \in mine :
                    got = [preferences |-> OrEmpty(u.preferences, PyDict({})),
                           topics |-> OrEmpty(u.topics, PyList(<<>>)),
                           personality |-> OrEmpty(u.personality, PyDict({}))]

C16_Witness ==
    /\ last_chat.op = "get_user_context"
    /\ \E u \in context_updates :
          /\ u.session_id = last_chat.session_id
          /\ u.topics = PyNone /\ u.preferences # PyNone
          /\ u.preferences = last_chat.result.preferences
          /\ u.preferences.body # {}
    /\ last_chat.result.topics = PyList(<<>>)
    /\ \E u \in context_updates : u.session_id # last_chat.session_id

\* ===================================================================
\* Further properties of the chat handlers (SpecChat)
\* ===================================================================

\* The last chat request reached its save_conversation call.
SaveAttempted ==
    /\ last_chat.op = "chat"
    /\ last_chat.path = "ws" => SessionTruthy(last_chat.session_in)

\* The reply generate_response produced for the last chat request.
GeneratedReply ==
    generate_response(ApiAiClient, last_chat.message, last_chat.history,
                      analyze_context(ApiMlService, last_chat.message,
                                      last_chat.history, {}).ret,
                      NoOutcome).reply

\* C17: when save_conversation fails after the reply has been generated, the
\* caller still gets the generated reply text, marked as not persisted, on the
\* HTTP and on the WebSocket path.
C17_ReplySurvivesSaveFailure ==
    (SaveAttempted /\ last_chat.save_raises)
        => /\ last_chat.reply.type = "response"
           /\ last_chat.reply.message = GeneratedReply.message
           /\ "persisted" \in DOMAIN last_chat.reply

\* ===================================================================
\* src/services/ai_service.py : generate_response on an initialised AIService,
\* given the history of src/core/database.py
\* ===================================================================

\* self.client once AIService.initialize() has run.
LiveAiClient == "AsyncOpenAI"

\* A completion the backend returns.
PromptOutcome == [ok |-> TRUE, text |-> "respuesta", confidence |-> 8]

\* The history fetch and the generate_response call of a chat handler:
\* db_manager.get_conversation_history(session_id, limit=10), then
\* ai_service.generate_response(message, conversation_history, context).
generate_response_call(session_id, message) ==
    /\ \E history \in get_conversation_history(conversations, session_id, 10) :
         LET context == analyze_context(ApiMlService, message, history, {}).ret
             gen == generate_response(LiveAiClient, message, history, context,
                                      PromptOutcome)
         IN  last_chat' = [op |-> "generate_response", session_id |-> session_id,
                           message |-> message, history |-> history,
                           sent |-> gen.sent]
    /\ UNCHANGED <<conversations, sessions, now, uuids, save_calls, ml_service,
                   user_context, context_updates, monitor_vars, registry_vars>>

PromptNext ==
    \/ \E sid \in DbSessions, m \in DbMessages :
          db_save_conversation(sid, m, PyNone, 8)
    \/ Tick
    \/ \E sid \in DbSessions, m \in DbMessages : generate_response_call(sid, m)

InitPrompt == MonitorIdle /\ ChatIdle /\ RegistryIdle

SpecPrompt ==
    /\ InitPrompt
    /\ [][PromptNext]_vars

\* C18: the prompt sent to the backend is one system message, then the (at
\* most 10) most recent stored turns of the session oldest first, each as a
\* user message followed by its assistant message, then the current user
\* message; so the turn next to the current message is the most recent one.
C18_PromptOldestFirst ==
    last_chat.op = "generate_response"
        => LET saved == SavedFor(last_chat.session_id)
               k == Min(10, Len(saved))
               sent == last_chat.sent
           IN  /\ Len(sent) = 2 * k + 2
               /\ sent[1].role = "system"
               /\ sent[Len(sent)] = [role |-> "user", content |-> last_chat.message]
               /\ \A i \in 1..k :
                    LET turn == saved[Len(saved) - k + i]
                    IN  /\ sent[2 * i] = [role |-> "user",
                                          content |-> turn.user_message]
                        /\ sent[2 * i + 1] = [role |-> "assistant",
                                              content |-> turn.ai_response]

\* ===================================================================
\* main_openai_smart.py : recovery of the TokenMonitor
\* ===================================================================

\* The monitor is unavailable after backend failures (not for want of a key).
FallbackMode ==
    /\ api_key = "sk-live"
    /\ ~token_monitor.openai_available
    /\ token_monitor.error_count > 0

\* A chat request, over either transport, that the backend accepts if it is
\* asked.
accepted_request ==
    \/ \E msg \in SmartMessages : send_message(msg, "success")
    \/ \E msg \in SmartMessages, sid \in {"default", "s1"} :
          websocket_endpoint_message(msg, sid, "success")

\* Requests as in MonitorNext, except that once the monitor is in fallback
\* mode the backend accepts every call made to it.
RecoveryNext ==
    \/ ~FallbackMode /\ MonitorNext
    \/ FallbackMode /\ accepted_request

InitRecovery == MonitorInit /\ ChatIdle /\ RegistryIdle

\* Chat requests keep arriving.
SpecRecovery ==
    /\ InitRecovery
    /\ [][RecoveryNext]_vars
    /\ WF_vars(accepted_request)

\* The latest request was answered by the backend and left the monitor
\* available.
AnsweredByBackend ==
    /\ token_monitor.openai_available
    /\ last_request.backend_calls = 1
    /\ ~last_request.reply.fallback

\* C19: once the monitor is in fallback mode because of backend failures,
\* with the backend accepting every request from then on, continued chat
\* requests lead to a request that the backend answers again.
C19_FallbackRecovers ==
    (FallbackMode /\ token_monitor.usage_count < MaxUsage) ~> AnsweredByBackend

\* ===================================================================
\* Further properties of the TokenMonitor (SpecMonitor)
\* ===================================================================

\* The classification record_error gives to an error text.
Classification(e) ==
    IF Contains(e, "quota") \/ Contains(e, "rate limit") THEN "quota_exceeded"
    ELSE IF Contains(e, "api key") THEN "invalid_api_key"
    ELSE "error"

\* The step is a chat request whose backend call failed.
FailureRecorded ==
    /\ last_request'.path \in {"http", "ws"}
    /\ last_request'.backend_calls = 1
    /\ last_request'.outcome \in ErrorTexts

\* C20: every recorded failure adds exactly one to the monitor's error count
\* and sets last_error and the classification to those of that failure,
\* whatever state results; and no step, success or failure, lowers the count.
C20_ErrorCountMonotone ==
    [][/\ FailureRecorded
          => /\ token_monitor'.error_count = token_monitor.error_count + 1
             /\ token_monitor'.last_error = last_request'.outcome
             /\ token_monitor'.token_status = Classification(last_request'.outcome)
       /\ token_monitor'.error_count >= token_monitor.error_count]_vars

\* ===================================================================
\* The availability query (SpecMonitor)
\* ===================================================================

\* The step was GET /health or GET /api/token-status, or a chat request that
\* stopped at check_openai_status (no backend call followed).
StatusQueryOnly ==
    \/ last_request'.path \in {"health", "token-status"}
    \/ /\ last_request'.path \in {"http", "ws"}
       /\ last_request'.backend_calls = 0

\* C21: the availability query (check_openai_status, made before each
\* generation attempt and by /health and /api/token-status) is a pure read: it
\* leaves openai_available, token_status, error_count, usage_count and
\* last_error as they were, in every state.
C21_StatusQueryIsPureRead ==
    [][StatusQueryOnly => token_monitor' = token_monitor]_vars

\* ===================================================================
\* One backend call and one reply per chat request (SpecMonitor)
\* ===================================================================
FallbackTexts == {"TOKENS AGOTADOS", "API KEY INVALIDA",
                  "CONFIGURACION REQUERIDA", "MODO DE RESPALDO"}

\* C22: each chat request calls the generation backend at most once and yields
\* one reply; when the backend call fails the failure is recorded in the
\* monitor exactly once and the fallback reply is produced in the same request
\* without a second backend call; the fallback path produces its reply (and
\* raises nothing) for every status and message.
C22_OneBackendCallOneReply ==
    ChatRequest
        => /\ last_request.backend_calls \in {0, 1}
           /\ last_request.reply # NoReply
           /\ last_request.outcome \in ErrorTexts
                => /\ last_request.backend_calls = 1
                   /\ token_monitor.error_count = last_request.before.error_count + 1
                   /\ token_monitor.last_error = last_request.outcome
                   /\ last_request.reply.fallback
                   /\ last_request.reply.error_detail = last_request.outcome
           /\ last_request.reply.fallback
                => /\ last_request.reply.response \in FallbackTexts
                   /\ last_request.reply.openai_status = token_monitor.token_status
                   /\ last_request.reply.confidence = 3

C22_Witness ==
    /\ ChatRequest
    /\ last_request.outcome = "Connection timed out"
    /\ last_request.backend_calls = 1
    /\ last_request.reply.fallback
    /\ last_request.reply.response = "MODO DE RESPALDO"
    /\ token_monitor.error_count = last_request.before.error_count + 1

\* ===================================================================
\* main_openai_smart.py : request handlers in flight on one event loop
\* ===================================================================
\* send_message and websocket_endpoint are `async def`: each runs on the one
\* event loop and gives up control only at an await. send_message awaits
\* request.json(); websocket_endpoint awaits receive_text() and, through
\* send_personal_message, send_text(). openai.ChatCompletion.create is a plain
\* (blocking) call, so check_openai_status, the backend call and
\* record_success / record_error run between two awaits without a break.
MaxInflight == 2
MaxFrames == 2

\* The monitor a handler works on when it resumes: the module-level
\* token_monitor as it is then, whatever error_count (seen) it held when the
\* handler was suspended.
resumed_monitor_stale(current, seen) == [current EXCEPT !.error_count = seen]

resumed_monitor(current, seen) == current

Handler(path, at) ==
    [path |-> path, pc |-> at, seen |-> token_monitor.error_count,
     frames |-> 0, failures |-> 0]

\* What one pass over the chat code does to the handler's own tallies.
Tally(h, r, outcome) ==
    [h EXCEPT !.frames = @ + 1,
              !.failures = @ + (IF r.backend_calls = 1 /\ outcome # "success"
                                THEN 1 ELSE 0)]

\* POST /api/chat/send arrives: send_message starts and awaits request.json().
send_message_starts ==
    /\ Len(handlers) < MaxInflight
    /\ handlers' = Append(handlers, Handler("http", "json"))
    /\ UNCHANGED <<api_key, services, lifespan, token_monitor, last_request, chat_vars, registry_vars>>

\* request.json() returns: the rest of send_message runs to its return.
send_message_resumes(i, user_message, outcome) ==
    LET h == handlers[i]
        r == chat_exchange(resumed_monitor(token_monitor, h.seen), api_key,
                           user_message, outcome)
    IN  /\ h.path = "http" /\ h.pc = "json"
        /\ r.monitor.usage_count <= MaxUsage
        /\ token_monitor' = r.monitor
        /\ handlers' = [handlers EXCEPT ![i] = [Tally(h, r, outcome) EXCEPT !.pc = "done"]]
        /\ UNCHANGED <<api_key, services, lifespan, last_request, chat_vars, registry_vars>>

\* /ws/chat is opened: manager.connect, then the loop awaits receive_text().
websocket_endpoint_starts ==
    /\ Len(handlers) < MaxInflight
    /\ handlers' = Append(handlers, Handler("ws", "receive"))
    /\ UNCHANGED <<api_key, services, lifespan, token_monitor, last_request, chat_vars, registry_vars>>

\* receive_text() returns a {"type": "message"} frame: the branch runs up to
\* the await of send_personal_message.
websocket_endpoint_resumes(i, user_message, outcome) ==
    LET h == handlers[i]
        r == chat_exchange(resumed_monitor(token_monitor, h.seen), api_key,
                           user_message, outcome)
    IN  /\ h.path = "ws" /\ h.pc = "receive"
        /\ h.frames < MaxFrames
        /\ r.monitor.usage_count <= MaxUsage
        /\ token_monitor' = r.monitor
        /\ handlers' = [handlers EXCEPT ![i] = [Tally(h, r, outcome) EXCEPT !.pc = "send"]]
        /\ UNCHANGED <<api_key, services, lifespan, last_request, chat_vars, registry_vars>>

\* send_text() returns (or fails and is swallowed): the loop awaits the next
\* frame.
websocket_endpoint_sent(i) ==
    /\ handlers[i].path = "ws" /\ handlers[i].pc = "send"
    /\ handlers' = [handlers EXCEPT ![i].pc = "receive", ![i].seen = token_monitor.error_count]
    /\ UNCHANGED <<api_key, services, lifespan, token_monitor, last_request, chat_vars, registry_vars>>

\* receive_text() raises WebSocketDisconnect.
websocket_endpoint_ends(i) ==
    /\ handlers[i].path = "ws" /\ handlers[i].pc = "receive"
    /\ handlers' = [handlers EXCEPT ![i].pc = "done"]
    /\ UNCHANGED <<api_key, services, lifespan, token_monitor, last_request, chat_vars, registry_vars>>

\* The backend answers, fails in passing, or refuses for rate.
InflightOutcomes == {"success", "Connection timed out",
                     "Rate limit reached for requests"}

InflightNext ==
    \/ send_message_starts
    \/ \E i \in DOMAIN handlers, o \in InflightOutcomes : send_message_resumes(i, "hola", o)
    \/ websocket_endpoint_starts
    \/ \E i \in DOMAIN handlers, o \in InflightOutcomes :
          websocket_endpoint_resumes(i, "hola", o)
    \/ \E i \in DOMAIN handlers : websocket_endpoint_sent(i)
    \/ \E i \in DOMAIN handlers : websocket_endpoint_ends(i)

InitInflight == MonitorIdle /\ ChatIdle /\ RegistryIdle

SpecInflight ==
    /\ InitInflight
    /\ [][InflightNext]_vars

RECURSIVE TallySum(_)
TallySum(i) == IF i = 0 THEN 0 ELSE TallySum(i - 1) + handlers[i].failures

\* Backend calls that failed so far, and those that succeeded (record_success
\* counts them in usage_count).
Failures == TallySum(Len(handlers))
Successes == token_monitor.usage_count

\* C23: with several HTTP and WebSocket requests in flight against the one
\* monitor, no record_error or record_success step interleaves with another:
\* after n failures and no success the error count is exactly n, under every
\* interleaving of the handlers at their await points.
C23_NoLostUpdate ==
    Successes = 0 => token_monitor.error_count = Failures

\* Two handlers were both suspended before either recorded its failure.
C23_Witness ==
    /\ Successes = 0
    /\ token_monitor.error_count = 2
    /\ \E i, j \in DOMAIN handlers :
          /\ i # j
          /\ handlers[i].failures = 1 /\ handlers[i].seen = 0
          /\ handlers[j].failures = 1 /\ handlers[j].seen = 0
          /\ handlers[i].path = "http" /\ handlers[j].path = "ws"

\* ===================================================================
\* src/api/chat.py, src/api/websocket.py : chat handlers in flight
\* ===================================================================
\* chat.send_message and websocket.handle_chat_message fetch the history with
\* a plain call, then `await ml_service.analyze_context(...)`, then
\* `await ai_service.generate_response(...)`, then call save_conversation with
\* a plain call and return. A handler can be suspended, and cancelled, at each
\* of the two awaits; other handlers run meanwhile.

\* conversation_id = cursor.lastrowid of the INSERT in save_conversation.
lastrowid(db_before, db_after) ==
    IF Len(db_after.conversations) > Len(db_before.conversations)
    THEN db_after.conversations[Len(db_after.conversations)].id
    ELSE 0

HandleMessages == {Text("a", 1), Text("b", 1)}

\* The handler starts: session_id is settled (minting one on the HTTP path),
\* the history is fetched, and the handler awaits analyze_context.
handle_starts(path, message, session_in) ==
    LET minted == path = "http" /\ ~SessionTruthy(session_in)
        sid == IF minted THEN uuid4(uuids + 1) ELSE session_in
    IN  /\ Len(handlers) < MaxInflight
        /\ minted => uuids < MaxUuids
        /\ \E history \in (IF SessionTruthy(sid)
                           THEN get_conversation_history(conversations, sid, 10)
                           ELSE {<<>>}) :
              handlers' = Append(handlers,
                                 [path |-> path, pc |-> "analyze", session_id |-> sid,
                                  message |-> message, history |-> history,
                                  rows_at_read |-> Len(conversations),
                                  conversation_id |-> 0])
        /\ uuids' = IF minted THEN uuids + 1 ELSE uuids
        /\ UNCHANGED <<conversations, sessions, now, last_chat, save_calls, ml_service,
                       user_context, context_updates, api_key, services, lifespan, token_monitor,
                       last_request, registry_vars>>

\* analyze_context returns; the handler awaits generate_response.
handle_analyzed(i) ==
    /\ handlers[i].pc = "analyze"
    /\ handlers' = [handlers EXCEPT ![i].pc = "generate"]
    /\ UNCHANGED <<chat_vars, api_key, services, lifespan, token_monitor, last_request, registry_vars>>

\* generate_response returns; the handler saves the turn (sqlite may fail
\* inside save_conversation) and returns its response.
handle_generated(i, save_raises) ==
    LET h == handlers[i]
        r == IF h.path = "http"
             THEN chat_send_message(db_now, now, uuids, h.message, h.session_id,
                                    h.history, save_raises)
             ELSE handle_chat_message(db_now, now, uuids, h.message, h.session_id,
                                      h.history, save_raises)
    IN  /\ h.pc = "generate"
        /\ Len(conversations) < MaxRows
        /\ conversations' = r.db.conversations
        /\ sessions' = r.db.sessions
        /\ handlers' = [handlers EXCEPT
                           ![i].pc = IF r.reply.type = "response" THEN "done" ELSE "failed",
                           ![i].conversation_id = lastrowid(db_now, r.db)]
        /\ UNCHANGED <<now, uuids, last_chat, save_calls, ml_service, user_context,
                       context_updates, api_key, services, lifespan, token_monitor, last_request,
                       registry_vars>>

\* The task running the handler is cancelled while it is suspended.
handle_cancelled(i) ==
    /\ handlers[i].pc \in {"analyze", "generate"}
    /\ handlers' = [handlers EXCEPT ![i].pc = "cancelled"]
    /\ UNCHANGED <<chat_vars, api_key, services, lifespan, token_monitor, last_request, registry_vars>>

\* One second passes on the database clock.
handle_tick ==
    /\ now < MaxClock
    /\ now' = now + 1
    /\ UNCHANGED <<conversations, sessions, uuids, last_chat, save_calls, ml_service,
                   user_context, context_updates, monitor_vars, registry_vars>>

HandleNext ==
    \/ \E p \in {"http", "ws"}, m \in HandleMessages, sid \in {NoSession, ClientSession} :
          handle_starts(p, m, sid)
    \/ \E i \in DOMAIN handlers : handle_analyzed(i)
    \/ \E i \in DOMAIN handlers, f \in BOOLEAN : handle_generated(i, f)
    \/ \E i \in DOMAIN handlers : handle_cancelled(i)
    \/ handle_tick

InitHandle == MonitorIdle /\ ChatIdle /\ RegistryIdle

SpecHandle ==
    /\ InitHandle
    /\ [][HandleNext]_vars

\* Handlers that stored a turn.
Persisted == {i \in DOMAIN handlers : handlers[i].conversation_id # 0}

\* The reply generate_response gives a handler.
GeneratedFor(h) ==
    generate_response(ApiAiClient, h.message, h.history,
                      analyze_context(ApiMlService, h.message, h.history, {}).ret,
                      NoOutcome).reply

\* C24: within one handler call the history is read before generation and
\* generation comes before persistence; a call appends at most one turn, only
\* after generation has returned, in one atomic store write, so a call that is
\* cancelled at an await before that write (or whose write fails) leaves no
\* turn and no session counter change in the store.
C24_PersistAfterGenerateAtomic ==
    /\ \A i \in DOMAIN handlers :
          LET h == handlers[i]
          IN  /\ h.pc \in {"analyze", "generate", "cancelled", "failed"}
                    => h.conversation_id = 0
              /\ h.conversation_id # 0
                    => /\ h.pc = "done"
                       /\ h.conversation_id > h.rows_at_read
                       /\ h.conversation_id \in 1..Len(conversations)
                       /\ conversations[h.conversation_id].ai_response
                              = GeneratedFor(h).message
                       /\ conversations[h.conversation_id].user_message = h.message
    /\ \A r \in 1..Len(conversations) :
          Cardinality({i \in Persisted : handlers[i].conversation_id = r}) = 1
    /\ \A s \in sessions :
          s.message_count = Cardinality({i \in Persisted : handlers[i].session_id = s.id})
    /\ \A i \in Persisted : \E s \in sessions : s.id = handlers[i].session_id

\* A handler cancelled while awaiting generation, after another stored a turn.
C24_Witness ==
    \E i, j \in DOMAIN handlers :
        /\ handlers[i].pc = "cancelled"
        /\ handlers[j].pc = "done" /\ handlers[j].conversation_id = 1
        /\ handlers[i].session_id = handlers[j].session_id
        /\ Len(conversations) = 1

\* ===================================================================
\* The stored user context and the system prompt
\* ===================================================================

\* PUT /api/chat/context stores a session's topics and personality; chat
\* requests on the session follow (generate_response, as in SpecPrompt, on an
\* initialised AIService).
PersonalNext ==
    \/ \E sid \in DbSessions, t \in TopicValues, q \in PersonalityValues :
          db_update_user_context(sid, PyNone, t, q)
    \/ \E sid \in DbSessions, m \in DbMessages : generate_response_call(sid, m)
    \/ \E sid \in DbSessions, m \in DbMessages :
          db_save_conversation(sid, m, PyNone, 8)

InitPersonal == MonitorIdle /\ ChatIdle /\ RegistryIdle

SpecPersonal ==
    /\ InitPersonal
    /\ [][PersonalNext]_vars

\* The communication_style of a personality argument, None when it has none.
StyleOf(personality) ==
    IF \E q \in personality.body : q[1] = "communication_style"
    THEN (CHOOSE q \in personality.body : q[1] = "communication_style")[2]
    ELSE None

\* C25: the response generator is given the session's stored user context:
\* after update_user_context(s, topics = T, personality = P) with T non-empty,
\* the system prompt of the next chat request on s contains the topics T, and
\* P's communication_style when P has one.
C25_PromptCarriesUserContext ==
    last_chat.op = "generate_response"
        => \A u \in context_updates :
              (u.session_id = last_chat.session_id /\ PyTruthy(u.topics))
                 => /\ last_chat.sent[1].content.topics = u.topics
                    /\ StyleOf(u.personality) # None
                          => last_chat.sent[1].content.communication_style
                                 = StyleOf(u.personality)

\* ===================================================================
\* src/services/ml_service.py : calculate_similarity on the stored history
\* ===================================================================
MaxTurns == 6

SimilaritySession == ClientSession

\* The k-th turn of the session is saved, each turn in a second of its own;
\* its user message is "a" repeated k times.
similarity_save ==
    LET k == Len(conversations) + 1
        r == save_conversation(db_now, SimilaritySession, Text("a", k), "respuesta",
                               PyNone, 8, now)
    IN  /\ k <= MaxTurns
        /\ conversations' = r.conversations
        /\ sessions' = r.sessions
        /\ now' = now + 1
        /\ last_chat' = NoChat
        /\ UNCHANGED <<uuids, save_calls, ml_service, user_context, context_updates,
                       monitor_vars, registry_vars>>

\* The orchestrator's two steps: db_manager.get_conversation_history(
\* session_id, limit=10), then calculate_similarity(message, history) inside
\* analyze_context.
calculate_similarity_call(message) ==
    /\ \E history \in get_conversation_history(conversations, SimilaritySession, 10) :
          last_chat' = [op |-> "similarity", message |-> message,
                        history |-> history,
                        result |-> calculate_similarity(ml_service, message,
                                                        history, FALSE)]
    /\ UNCHANGED <<conversations, sessions, now, uuids, save_calls, ml_service,
                   user_context, context_updates, monitor_vars, registry_vars>>

SimilarityNext ==
    \/ similarity_save
    \/ \E s, i, e \in BOOLEAN : ml_initialize(s, i, e)
    \/ \E k \in {1, MaxTurns} : calculate_similarity_call(Text("a", k))

InitSimilarity == MonitorIdle /\ ChatIdle /\ RegistryIdle

SpecSimilarity ==
    /\ InitSimilarity
    /\ [][SimilarityNext]_vars

\* The user messages of the session's most recent (at most five) stored turns.
RecentUserMessages ==
    LET n == Len(conversations)
    IN  [i \in 1..Min(5, n) |-> conversations[n - Min(5, n) + i].user_message]

RECURSIVE ScoreSum(_, _, _)
ScoreSum(message, texts, i) ==
    IF i = 0 THEN 0
    ELSE cosine_similarity(message, texts[i]) + ScoreSum(message, texts, i - 1)

\* C26: calculate_similarity compares the current message with at most 5 prior
\* user messages, the 5 most recent ones of the history the orchestrator gives
\* it; the similarity it reports is the average of those scores and
\* most_similar is the highest-scoring of them; with an empty history or no
\* embedding model loaded it reports similarity 0.0 and most_similar none.
C26_SimilarityOverFiveMostRecent ==
    last_chat.op = "similarity"
        => LET recent == RecentUserMessages
               got == last_chat.result
           IN  IF recent = <<>> \/ ml_service.sentence_model = None
               THEN got.similarity = 0 /\ got.most_similar = PyNone
               ELSE /\ got.similarity
                          = ScoreSum(last_chat.message, recent, Len(recent))
                                \div Len(recent)
                    /\ \E best \in got.most_similar.body :
                          /\ \E i \in 1..Len(recent) : best.message = recent[i]
                          /\ best.similarity
                                = cosine_similarity(last_chat.message, best.message)
                          /\ \A i \in 1..Len(recent) :
                                best.similarity
                                    >= cosine_similarity(last_chat.message, recent[i])

\* ===================================================================
\* Further properties of extract_keywords (SpecKeywords)
\* ===================================================================

\* The instance as it was before it analyzed any message: a vectorizer, if
\* there is one, is as initialize() created it.
BeforeAnyMessage(ml) ==
    [ml EXCEPT !.tfidf_vectorizer =
                  IF @ = NoVectorizer THEN NoVectorizer ELSE UnfittedVectorizer]

\* C27: each text signal extractor is side-effect-free: the result of
\* extract_keywords on a message is the same whatever messages were analyzed
\* before it on the same MLService instance, and the call leaves the MLService
\* state unchanged.
C27_ExtractorsSideEffectFree ==
    last_chat.op = "extract_keywords"
        => /\ last_chat.result
                 = extract_keywords(BeforeAnyMessage(last_chat.before),
                                    last_chat.text, last_chat.raises).ret
           /\ ml_service = last_chat.before

\* ===================================================================
\* Further properties of the Session Registry (SpecRegistry)
\* ===================================================================

\* get_admin_stats: len(manager.active_connections) and
\* len(manager.connection_sessions).
get_admin_stats ==
    [active_connections |-> Len(active_connections),
     total_sessions |-> Cardinality(connection_sessions)]

\* C28: in every reachable state of the ConnectionManager every handle with
\* an entry in connection_sessions is a member of active_connections, so the
\* total_sessions reported never exceeds the active_connections reported.
C28_SessionsAreConnected ==
    /\ \A e \in connection_sessions : e[1] \in Range(active_connections)
    /\ get_admin_stats.total_sessions <= get_admin_stats.active_connections

\* One connection with a session is registered after a broadcast has removed
\* another.
C28_Witness ==
    /\ pruned # {}
    /\ get_admin_stats.total_sessions = 1
    /\ get_admin_stats.active_connections = 1

\* ===================================================================
\* Concurrent chat requests on one session (SpecHandle)
\* ===================================================================

\* The handlers on session sid that returned their response.
Completed(sid) ==
    {i \in DOMAIN handlers :
        handlers[i].pc = "done" /\ handlers[i].session_id = sid}

HandleSessions ==
    {handlers[i].session_id : i \in DOMAIN handlers} \ {NoSession, EmptySession}

\* C29: when two or more chat requests on the same session_id are in flight
\* together, each completed request appends exactly one turn and no appended
\* turn is lost or overwritten: the turns stored for the session have grown by
\* the number of completed requests, under every interleaving.
C29_ConcurrentTurnsAllStored ==
    \A sid \in HandleSessions :
        /\ Cardinality(RowsOf(conversations, sid)) = Cardinality(Completed(sid))
        /\ \A i \in Completed(sid) :
              /\ handlers[i].conversation_id \in RowsOf(conversations, sid)
              /\ conversations[handlers[i].conversation_id].user_message
                     = handlers[i].message
        /\ \A i, j \in Completed(sid) :
              i # j => handlers[i].conversation_id # handlers[j].conversation_id

\* Two requests on one session, over HTTP and over WebSocket, each read the
\* history before the other had stored its turn, and both completed.
C29_Witness ==
    \E i, j \in DOMAIN handlers :
        /\ handlers[i].session_id = ClientSession
        /\ handlers[j].session_id = ClientSession
        /\ handlers[i].path = "http" /\ handlers[j].path = "ws"
        /\ handlers[i].pc = "done" /\ handlers[j].pc = "done"
        /\ handlers[i].rows_at_read = 0 /\ handlers[j].rows_at_read = 0
        /\ handlers[i].message # handlers[j].message
        /\ Len(conversations) = 2

\* ===================================================================
\* save_conversation called directly, on its own
\* ===================================================================
SavesNext ==
    \/ \E sid \in DbSessions, m \in DbMessages, c \in DbContexts,
          conf \in DbConfidences : db_save_conversation(sid, m, c, conf)
    \/ Tick

InitSaves == MonitorIdle /\ ChatIdle /\ RegistryIdle

SpecSaves ==
    /\ InitSaves
    /\ [][SavesNext]_vars

\* ===================================================================
\* Further properties of the DatabaseManager (SpecSaves)
\* ===================================================================

\* C30: after any sequence of save_conversation calls, for every session the
\* message_count in the sessions table equals the number of rows stored for
\* that session in the conversations table.
C30_MessageCountMatchesRows ==
    /\ \A s \in sessions :
          s.message_count = Cardinality(RowsOf(conversations, s.id))
    /\ \A i \in 1..Len(conversations) :
          Cardinality({s \in sessions : s.id = conversations[i].session_id}) = 1

\* A second turn has just been saved for a session.
C30_Witness ==
    /\ last_chat.op = "save"
    /\ \E s \in sessions :
          /\ s.id = last_chat.session_id
          /\ s.message_count = 2
          /\ Cardinality(RowsOf(conversations, s.id)) = 2

\* ===================================================================
\* src/api/websocket.py : one /ws/chat connection, frame by frame
\* ===================================================================
\* websocket_chat loops over `data = await websocket.receive_text()`,
\* json.loads(data), `await process_websocket_message(...)` and
\* `await manager.send_personal_message(...)`. Here each entry of handlers is
\* a websocket_chat coroutine: where it stands, whether its client is still
\* there, how many frames it has received and replies it has sent, and the
\* latest frame and the response built for it.
MaxSockets == 1

\* Text frames a client sends: text that is not JSON, JSON that is not an
\* object, and objects with or without a "type" and a "session_id".
Frame(json, type, session_id) == [json |-> json, type |-> type, session_id |-> session_id]

NoFrame == Frame("none", None, NoSession)

Frames ==
    {Frame("invalid", None, NoSession), Frame("list", None, NoSession),
     Frame("object", "typing", NoSession), Frame("object", "ping", NoSession)}
    \cup {Frame("object", t, s) : t \in {"absent", "message"},
                                   s \in {NoSession, ClientSession}}
    \cup {Frame("object", "context_update", s) :
              s \in {NoSession, EmptySession, ClientSession}}

NoResponse == [type |-> "none"]

\* manager.connection_sessions.get(websocket)
connection_session(reg, websocket) ==
    IF \E e \in reg.connection_sessions : e[1] = websocket
    THEN (CHOOSE e \in reg.connection_sessions : e[1] = websocket)[2]
    ELSE NoSession

\* handle_typing_indicator
handle_typing_indicator(message_data) ==
    [type |-> "typing", is_typing |-> FALSE, user_id |-> "unknown"]

\* handle_context_update: the user_context table afterwards and the dict
\* returned; update_raises stands for sqlite failing inside
\* update_user_context. The frame carries topics and nothing else.
handle_context_update(table, message_data, session_id, update_raises) ==
    IF ~SessionTruthy(session_id)
    THEN [user_context |-> table,
          reply |-> [type |-> "error",
                     message |-> "Session ID requerido para actualizar contexto"]]
    ELSE IF update_raises
    THEN [user_context |-> table,
          reply |-> [type |-> "error", message |-> "Error actualizando contexto"]]
    ELSE [user_context |->
              update_user_context(table, session_id, PyNone,
                                  PyList(<<"ia", "cine">>), PyNone),
          reply |-> [type |-> "context_updated", session_id |-> session_id]]

process_websocket_message_default_chat(db, table, reg, ts, message_data, websocket, history, raises) ==
    LET session_id == websocket_session_id(message_data.session_id,
                                           connection_session(reg, websocket))
        chat == handle_chat_message(db, ts, 0, Text("a", 1), session_id,
                                    history, raises)
    IN  [db |-> chat.db, user_context |-> table, reply |-> chat.reply]

\* process_websocket_message on a frame json.loads accepted. A frame that is
\* not an object has no .get: the AttributeError is caught by the outer
\* except. `raises` stands for sqlite failing inside the handler called.
process_websocket_message(db, table, reg, ts, message_data, websocket, history, raises) ==
    LET message_type == IF message_data.type = "absent" THEN "message"
                        ELSE message_data.type
        session_id == websocket_session_id(message_data.session_id,
                                           connection_session(reg, websocket))
        chat == handle_chat_message(db, ts, 0, Text("a", 1), session_id,
                                    history, raises)
        update == handle_context_update(table, message_data, session_id, raises)
    IN  IF message_data.json # "object"
        THEN [db |-> db, user_context |-> table,
              reply |-> [type |-> "error", message |-> "Error procesando mensaje"]]
        ELSE IF message_type = "message"
        THEN [db |-> chat.db, user_context |-> table, reply |-> chat.reply]
        ELSE IF message_type = "typing"
        THEN [db |-> db, user_context |-> table,
              reply |-> handle_typing_indicator(message_data)]
        ELSE IF message_type = "context_update"
        THEN [db |-> db, user_context |-> update.user_context,
              reply |-> update.reply]
        ELSE [db |-> db, user_context |-> table,
              reply |-> [type |-> "error",
                         message |-> "Tipo de mensaje no reconocido"]]

\* /ws/chat is opened: manager.connect, then the loop awaits receive_text().
websocket_chat_connects(session_id) ==
    /\ Len(handlers) < MaxSockets
    /\ SetRegistry(connect(registry_now, Len(handlers) + 1, session_id))
    /\ handlers' = Append(handlers,
                          [path |-> "chat", pc |-> "receive", peer |-> "open",
                           received |-> 0, sent |-> 0, frame |-> NoFrame,
                           response |-> NoResponse])
    /\ UNCHANGED <<api_key, services, lifespan, token_monitor, last_request, chat_vars, pc, peer,
                   route, bc_iter, bc_snapshot, bc_delivered, pruned>>

\* Frames received so far by the first i connections.
RECURSIVE FramesReceived(_)
FramesReceived(i) ==
    IF i = 0 THEN 0 ELSE FramesReceived(i - 1) + handlers[i].received

\* receive_text() returns a frame. Text json.loads rejects raises out of the
\* loop into `except Exception`: manager.disconnect, and the coroutine ends.
\* Any other frame goes through process_websocket_message, up to the await of
\* send_personal_message. At most MaxFrames frames are sent by the clients
\* altogether.
websocket_chat_receives(h, frame, raises) ==
    LET c == handlers[h]
        sid == websocket_session_id(frame.session_id,
                                    connection_session(registry_now, h))
    IN  /\ c.path = "chat" /\ c.pc = "receive" /\ c.peer = "open"
        /\ FramesReceived(Len(handlers)) < MaxFrames
        /\ Len(conversations) < MaxRows
        /\ IF frame.json = "invalid"
           THEN /\ SetRegistry(disconnect(registry_now, h))
                /\ handlers' = [handlers EXCEPT ![h].pc = "closed",
                                                ![h].received = @ + 1,
                                                ![h].frame = frame,
                                                ![h].response = NoResponse]
                /\ UNCHANGED <<conversations, sessions, save_calls, user_context>>
           ELSE \E history \in (IF SessionTruthy(sid)
                                THEN get_conversation_history(conversations, sid, 10)
                                ELSE {<<>>}) :
                  LET r == process_websocket_message(db_now, user_context,
                               registry_now, now, frame, h, history, raises)
                  IN  /\ conversations' = r.db.conversations
                      /\ sessions' = r.db.sessions
                      /\ save_calls' =
                            IF r.reply.type = "response"
                            THEN logged_saves(save_calls, conversations,
                                              r.db.conversations, r.reply.context)
                            ELSE save_calls
                      /\ user_context' = r.user_context
                      /\ handlers' = [handlers EXCEPT ![h].pc = "send",
                                                      ![h].received = @ + 1,
                                                      ![h].frame = frame,
                                                      ![h].response = r.reply]
                      /\ UNCHANGED <<active_connections, connection_sessions>>
        /\ UNCHANGED <<api_key, services, lifespan, token_monitor, last_request, now, uuids, last_chat,
                       ml_service, context_updates, pc, peer, route, bc_iter,
                       bc_snapshot, bc_delivered, pruned>>

\* send_personal_message: send_text returns and the loop awaits the next
\* frame, or it raises because the client is gone: `except Exception` calls
\* manager.disconnect and the coroutine ends.
websocket_chat_sends(h) ==
    LET c == handlers[h]
    IN  /\ c.path = "chat" /\ c.pc = "send"
        /\ IF c.peer = "open"
           THEN /\ handlers' = [handlers EXCEPT ![h].pc = "receive",
                                                ![h].sent = @ + 1]
                /\ UNCHANGED <<active_connections, connection_sessions>>
           ELSE /\ handlers' = [handlers EXCEPT ![h].pc = "closed"]
                /\ SetRegistry(disconnect(registry_now, h))
        /\ UNCHANGED <<api_key, services, lifespan, token_monitor, last_request, chat_vars, pc, peer,
                       route, bc_iter, bc_snapshot, bc_delivered, pruned>>

\* receive_text() raises WebSocketDisconnect: manager.disconnect.
websocket_chat_disconnected(h) ==
    /\ handlers[h].path = "chat" /\ handlers[h].pc = "receive"
    /\ handlers[h].peer = "gone"
    /\ handlers' = [handlers EXCEPT ![h].pc = "closed"]
    /\ SetRegistry(disconnect(registry_now, h))
    /\ UNCHANGED <<api_key, services, lifespan, token_monitor, last_request, chat_vars, pc, peer,
                   route, bc_iter, bc_snapshot, bc_delivered, pruned>>

\* The client of a connection goes away.
websocket_chat_client_closes(h) ==
    /\ handlers[h].path = "chat" /\ handlers[h].pc \in {"receive", "send"}
    /\ handlers[h].peer = "open"
    /\ handlers' = [handlers EXCEPT ![h].peer = "gone"]
    /\ UNCHANGED <<api_key, services, lifespan, token_monitor, last_request, chat_vars, registry_vars>>

SocketNext ==
    \/ \E sid \in {NoSession, ClientSession} : websocket_chat_connects(sid)
    \/ \E h \in DOMAIN handlers, f \in Frames, raises \in BOOLEAN :
          websocket_chat_receives(h, f, raises)
    \/ \E h \in DOMAIN handlers : websocket_chat_sends(h)
    \/ \E h \in DOMAIN handlers : websocket_chat_disconnected(h)
    \/ \E h \in DOMAIN handlers : websocket_chat_client_closes(h)

InitSocket == MonitorIdle /\ ChatIdle /\ RegistryIdle

SpecSocket ==
    /\ InitSocket
    /\ [][SocketNext]_vars

\* The reply types process_websocket_message can give to a frame.
ReplyTypes(frame) ==
    IF frame.json # "object" THEN {"error"}
    ELSE IF frame.type \in {"absent", "message"} THEN {"response", "error"}
    ELSE IF frame.type = "typing" THEN {"typing"}
    ELSE IF frame.type = "context_update" THEN {"context_updated", "error"}
    ELSE {"error"}

\* C31: on a connection whose client is still there, every frame received has
\* got exactly one reply, sent before the next frame was received and answering
\* that frame, or its reply is the one about to be sent; this for every frame,
\* whatever its type and whether or not its processing failed.
C31_OneReplyPerMessageInOrder ==
    \A h \in DOMAIN handlers :
        LET c == handlers[h]
        IN  /\ c.sent <= c.received /\ c.received <= c.sent + 1
            /\ c.pc = "send" => c.received = c.sent + 1
            /\ (c.pc # "send" /\ c.peer = "open") => c.sent = c.received
            /\ (c.sent = c.received /\ c.sent > 0)
                  => c.response.type \in ReplyTypes(c.frame)

\* The same for the frames json.loads accepts.
JsonFramesAnswered ==
    \A h \in DOMAIN handlers :
        LET c == handlers[h]
        IN  /\ c.sent <= c.received /\ c.received <= c.sent + 1
            /\ c.pc = "send" => c.received = c.sent + 1
            /\ (c.pc # "send" /\ c.peer = "open" /\ c.frame.json # "invalid")
                  => c.sent = c.received
            /\ (c.sent = c.received /\ c.sent > 0)
                  => c.response.type \in ReplyTypes(c.frame)

\* ===================================================================
\* Frames the endpoint cannot act on (SpecSocket)
\* ===================================================================

\* A frame whose type is none of message, typing, context_update (a frame
\* without a type counts as a message), or a context_update for which neither
\* the frame nor the connection gives a session id.
Unanswerable(frame, connection_sid) ==
    /\ frame.json = "object"
    /\ \/ frame.type \notin {"absent", "message", "typing", "context_update"}
       \/ /\ frame.type = "context_update"
          /\ ~SessionTruthy(websocket_session_id(frame.session_id, connection_sid))

\* C33: a frame of unrecognized type, and a context_update without any
\* session id, gets a reply of type "error" and leaves the conversations and
\* sessions tables, the user_context table and the connection registry as
\* they were; once the reply is sent the connection is still registered and
\* its loop is back at receive_text.
C33_UnusableFrameOnlyAnswered ==
    [][\A h \in DOMAIN handlers :
          LET c == handlers[h]
              d == handlers'[h]
              csid == connection_session(registry_now, h)
          IN  /\ (d.received = c.received + 1 /\ Unanswerable(d.frame, csid))
                    => /\ d.pc = "send"
                       /\ d.response.type = "error"
                       /\ UNCHANGED <<conversations, sessions, user_context,
                                      active_connections, connection_sessions>>
              /\ (d.sent = c.sent + 1 /\ Unanswerable(c.frame, csid))
                    => /\ c.response.type = "error"
                       /\ d.pc = "receive"
                       /\ h \in Range(active_connections')
                       /\ UNCHANGED <<conversations, sessions, user_context,
                                      active_connections, connection_sessions>>]_vars

\* After a stored chat turn and a stored context on the session of the
\* connection, a frame of unknown type has been answered.
C33_Witness ==
    \E h \in DOMAIN handlers :
        /\ handlers[h].pc = "receive" /\ handlers[h].sent = 2
        /\ Unanswerable(handlers[h].frame, connection_session(registry_now, h))
        /\ handlers[h].response.type = "error"
        /\ conversations # <<>>
        /\ h \in Range(active_connections)

\* ===================================================================
\* main.py : application startup and the service instances the request
\* handlers call
\* ===================================================================
\* Importing main.py imports src/api/chat.py and src/api/websocket.py; each of
\* the three modules runs `ai_service = AIService()` and
\* `ml_service = MLService()` at its top level, so there are three instances
\* of each class. A handler uses the pair of its own module.

\* AIService.initialize with OPENAI_API_KEY configured.
ai_service_initialize(ai) == [ai EXCEPT !.client = LiveAiClient]

\* startup_event: init_database(), then `await ai_service.initialize()` and
\* `await ml_service.initialize()` on the names of main.py. Without
\* OPENAI_API_KEY, AIService.initialize raises ValueError: startup fails and
\* no request is ever handled. Requests are only dispatched once the event
\* has returned.
startup_event(key_set, sentence_loads, intent_loads, emotion_loads) ==
    /\ lifespan = "imported"
    /\ IF key_set
       THEN /\ services' =
                  [services EXCEPT
                     !["main"].ai_service = ai_service_initialize(@),
                     !["main"].ml_service =
                         initialize(@, sentence_loads, intent_loads, emotion_loads)]
            /\ lifespan' = "serving"
       ELSE /\ lifespan' = "failed"
            /\ UNCHANGED services
    /\ UNCHANGED <<api_key, token_monitor, last_request, handlers, chat_vars,
                   registry_vars>>

\* What a handler of `module` leaves for inspection: the instances it called
\* generate_response and analyze_context on, as they were when it called them.
Served(handler, module, reply) ==
    [op |-> "served", handler |-> handler, module |-> module,
     ai_service |-> services[module].ai_service,
     ml_service |-> services[module].ml_service, reply |-> reply]

\* The instances of `module` after one of its handlers has run
\* analyze_context on a message (extract_keywords may fit the vectorizer).
after_analyze_context(module, message) ==
    [services EXCEPT ![module].ml_service =
        analyze_context(@, message, <<>>, {}).ml]

\* main.process_chat_message on a frame without history, called by the
\* websocket_endpoint of main.py.
served_process_chat_message(message, outcome) ==
    LET svc == services["main"]
        context == analyze_context(svc.ml_service, message, <<>>, {}).ret
        gen == generate_response(svc.ai_service.client, message, <<>>, context,
                                 outcome)
    IN  /\ lifespan = "serving"
        /\ services' = after_analyze_context("main", message)
        /\ last_chat' = Served("main.process_chat_message", "main",
                               [type |-> "response", message |-> gen.reply.message,
                                error |-> gen.reply.error])
        /\ UNCHANGED <<api_key, token_monitor, last_request, handlers, lifespan,
                       conversations, sessions, now, uuids, save_calls,
                       ml_service, user_context, context_updates, registry_vars>>

\* POST /api/chat/send without a session_id: chat.send_message.
served_send_message(message) ==
    LET r == chat_send_message(db_now, now, uuids, message, NoSession, <<>>, FALSE)
    IN  /\ lifespan = "serving"
        /\ Len(conversations) < MaxRows /\ uuids < MaxUuids
        /\ conversations' = r.db.conversations
        /\ sessions' = r.db.sessions
        /\ uuids' = r.drawn
        /\ save_calls' = logged_saves(save_calls, conversations,
                                      r.db.conversations, r.reply.context)
        /\ services' = after_analyze_context("chat", message)
        /\ last_chat' = Served("chat.send_message", "chat",
                               [type |-> r.reply.type, message |-> r.reply.message,
                                error |-> r.backend_calls = 0])
        /\ UNCHANGED <<api_key, token_monitor, last_request, handlers, lifespan,
                       now, ml_service, user_context, context_updates,
                       registry_vars>>

\* A {"type": "message"} frame on /ws/chat of a connection without a session:
\* websocket.handle_chat_message.
served_handle_chat_message(message) ==
    LET r == handle_chat_message(db_now, now, uuids, message, NoSession, <<>>, FALSE)
    IN  /\ lifespan = "serving"
        /\ services' = after_analyze_context("websocket", message)
        /\ last_chat' = Served("websocket.handle_chat_message", "websocket",
                               [type |-> r.reply.type, message |-> r.reply.message,
                                error |-> r.backend_calls = 0])
        /\ UNCHANGED <<api_key, token_monitor, last_request, handlers, lifespan,
                       conversations, sessions, now, uuids, save_calls,
                       ml_service, user_context, context_updates, registry_vars>>

StartupMessages == {Text("a", 1), ContextMessage}

StartupNext ==
    \/ \E k, s, i, e \in BOOLEAN : startup_event(k, s, i, e)
    \/ \E m \in StartupMessages, o \in {PromptOutcome, NoOutcome} :
          served_process_chat_message(m, o)
    \/ \E m \in StartupMessages : served_send_message(m)
    \/ \E m \in StartupMessages : served_handle_chat_message(m)

InitStartup == MonitorIdle /\ ChatIdle /\ RegistryIdle

SpecStartup ==
    /\ InitStartup
    /\ [][StartupNext]_vars

\* initialize() has completed on an AIService and on an MLService.
AiInitialized(ai) == ai.client # None
MlInitialized(ml) == ml.nlp # None /\ ml.tfidf_vectorizer # NoVectorizer

\* C32: every AIService and MLService instance on which a request handler
\* calls generate_response or analyze_context has had initialize() completed
\* by startup, before the first request is handled.
C32_HandlersUseInitializedServices ==
    last_chat.op = "served"
        => /\ AiInitialized(last_chat.ai_service)
           /\ MlInitialized(last_chat.ml_service)

\* The same for the handler of main.py alone, and the state of the instances
\* of the other two modules whenever requests are served.
MainHandlerUsesInitializedServices ==
    /\ (last_chat.op = "served" /\ last_chat.module = "main")
          => /\ AiInitialized(last_chat.ai_service)
             /\ MlInitialized(last_chat.ml_service)
    /\ \A m \in {"chat", "websocket"} :
          /\ services[m].ai_service.client = ApiAiClient
          /\ services[m].ml_service = ApiMlService

====
